---- MODULE Spec2Model ----
(***************************************************************************)
(* Model of the ACLED weekly-aggregate ingestion script                    *)
(* (packages/data/acled/fetch-weekly-aggregates.ts) running against the    *)
(* schema of packages/api/migrate/migrations/001_init_db_up.sql.           *)
(*                                                                         *)
(* The store is modelled at statement level: one pooled connection, whose  *)
(* statements are autocommitted unless a transaction is open; BEGIN takes  *)
(* a snapshot, ROLLBACK restores it, COMMIT drops it.  The script's column *)
(* `parent` and the schema's column `parent_id` are the same column here.  *)
(* Every awaited call (page navigation, query, file read) may fail.        *)
(***************************************************************************)
EXTENDS Integers, Sequences, FiniteSets, TLC

\* ------------------------------------------------------------- bounds
MaxRuns == 2        \* runs of main() (one ingestion cycle each)
MaxRows == 2        \* rows of one downloaded sheet
MaxJobs == 2        \* ledger length drawn for the change-detector check
MaxLoads == 2       \* calls of processRegionFile in one behaviour
MaxFaults == 2      \* refused awaited calls (environment failures) in one behaviour
MaxBatch == 4       \* records of a batch handed to the chunk loop alone
MaxChunk == 3       \* chunk sizes tried by the chunk loop alone
MaxAreas == 3       \* values drawn from geographic_area_id_seq by direct resolver calls
MaxCalls == 2       \* resolver calls of one load run side by side with another
BATCH_SIZE == 1     \* rows per INSERT statement (5000 in the script, scaled)

\* ------------------------------------------------------------- domains
NULL == 0
NoError == "none"
Undefined == "undefined"

\* regionLinks, in page order; each region is text already trimmed by main
regionLinks == << <<"M">>, <<"N">> >>

Filenames == {"file_v1.xlsx", "file_v2.xlsx"}

\* cell texts of a sheet: free text is a sequence of characters
RawCountries == { <<>>, <<"A">>, <<"A", " ">> }
RawAdmins == { <<>>, <<"X">> }
WeekStrs == {"", "garbage", "2022-11-19", "2022-11-26"}

RawRows == [week : WeekStrs, country : RawCountries, admin1 : RawAdmins]

RECURSIVE SeqsUpTo(_, _)
SeqsUpTo(S, n) ==
  IF n = 0 THEN { <<>> }
  ELSE LET shorter == SeqsUpTo(S, n - 1)
       IN shorter \cup { Append(q, x) : q \in {p \in shorter : Len(p) = n - 1}, x \in S }


\* ------------------------------------------------------------- state
VARIABLES
  geo,            \* geographic_area as the connection sees it
  agg,            \* acled_weekly_agg as the connection sees it
  seq,            \* last value of geographic_area_id_seq
  txOpen,         \* the pooled connection has an open transaction
  snapGeo,        \* geographic_area at BEGIN
  snapAgg,        \* acled_weekly_agg at BEGIN
  jobs,           \* data_job, in created_at order
  run,            \* number of main() runs started
  pc,             \* position of the script
  idx,            \* index into regionLinks of the region being processed
  filename,       \* downloadInfo.filename
  sheet,          \* the rows read by a call that may be repeated
  nrows,          \* rows.length
  weeksRead,      \* the week cells of the rows the loop has read
  status,         \* processRegionFile: status
  errorMessage,   \* processRegionFile: errorMessage
  thrown,         \* the exception in flight
  regionId,
  i,              \* loop index (rows, then chunks)
  countryCache,
  admin1Cache,
  aggregateData,
  visited,        \* regions the for-loop has entered in this run
  hfc,            \* last hasFilenameChanged call: arguments and result
  detected,       \* this iteration found the filename changed
  called,         \* this iteration called processRegionFile
  preGeo,         \* committed geographic_area when the iteration began
  preAgg,         \* committed acled_weekly_agg when the iteration began
  preJobs,        \* length of data_job when the iteration began
  prev,           \* the previous of two identical calls and the store it left
  batchSize,      \* BATCH_SIZE of the chunk loop
  clients,        \* connections of loads run side by side, each in a transaction
  tz,             \* time zone of the process: hours east of UTC
  ops,            \* what the load at hand did with its connection, in order
  mig,            \* the migration runner: its directory, its database, its last command
  faults,         \* awaited calls refused so far
  loads           \* calls of processRegionFile so far

dbVars == << geo, agg, seq, txOpen, snapGeo, snapAgg >>
rowVars == << sheet, nrows, weeksRead >>
loadVars == << status, errorMessage, regionId, i, countryCache, admin1Cache,
               aggregateData >>
histVars == << visited, hfc, detected, called, preGeo, preAgg, preJobs, prev >>

vars == << dbVars, jobs, run, pc, idx, filename, rowVars, loadVars, thrown,
           histVars, batchSize, clients, tz, ops, mig, faults, loads >>

\* the committed contents of the two tables
CommittedGeo == IF txOpen THEN snapGeo ELSE geo
CommittedAgg == IF txOpen THEN snapAgg ELSE agg

\* ------------------------------------------------------------- helpers
\* String.prototype.trim on a sequence of characters
RECURSIVE TrimLeft(_)
TrimLeft(s) == IF s # <<>> /\ Head(s) = " " THEN TrimLeft(Tail(s)) ELSE s

RECURSIVE TrimRight(_)
TrimRight(s) ==
  IF s # <<>> /\ s[Len(s)] = " " THEN TrimRight(SubSeq(s, 1, Len(s) - 1)) ELSE s

Trim(s) == TrimRight(TrimLeft(s))

\* new Date(text): the instant (a week number) of the texts it accepts
DateValue == [s \in {"2022-11-19", "2022-11-26"} |->
                IF s = "2022-11-19" THEN 1 ELSE 2]

\* parseDate taking any text for a date
parseDate_Lenient(dateStr) ==
  IF dateStr \in DOMAIN DateValue
    THEN [err |-> NoError, week |-> DateValue[dateStr]]
    ELSE [err |-> NoError, week |-> 1]

\* parseDate: [err, week]
parseDate(dateStr) ==
  IF dateStr \in DOMAIN DateValue
    THEN [err |-> NoError, week |-> DateValue[dateStr]]
    ELSE [err |-> "Unable to parse date", week |-> NULL]

Min(a, b) == IF a < b THEN a ELSE b

\* ------------------------------------------------------------- the store
\* INSERT INTO geographic_area (name, type, parent) ... RETURNING id, under
\* the schema's unique index on (type, name).  The sequence advances even
\* when the statement fails.  Result: [err, id, geo, seq]
InsertGeographicArea(g, s, name, type, parentId) ==
  IF \E a \in g : a.type = type /\ a.name = name
    THEN [err |-> "unique_violation", id |-> NULL, geo |-> g, seq |-> s + 1]
    ELSE [err |-> NoError, id |-> s + 1,
          geo |-> g \cup {[id |-> s + 1, name |-> name, type |-> type,
                           parent |-> parentId]},
          seq |-> s + 1]

\* getOrCreateGeographicArea without the lookup of an existing area
getOrCreateGeographicArea_NoLookup(g, s, name, type, parentId, fault) ==
  IF fault THEN [err |-> "query_failed", id |-> NULL, geo |-> g, seq |-> s]
  ELSE InsertGeographicArea(g, s, Trim(name), type, parentId)

\* getOrCreateGeographicArea with a lookup by name and type alone
getOrCreateGeographicArea_AnyParent(g, s, name, type, parentId, fault) ==
  LET trimmedName == Trim(name)
      existing == {a \in g : a.name = trimmedName /\ a.type = type}
  IN IF fault
       THEN [err |-> "query_failed", id |-> NULL, geo |-> g, seq |-> s]
     ELSE IF existing # {}
       THEN [err |-> NoError, id |-> (CHOOSE a \in existing : TRUE).id,
             geo |-> g, seq |-> s]
     ELSE InsertGeographicArea(g, s, trimmedName, type, parentId)

\* getOrCreateGeographicArea(client, name, type, parentId); parentId NULL
\* stands for an omitted argument.  fault: the first query is refused.
getOrCreateGeographicArea(g, s, name, type, parentId, fault) ==
  LET trimmedName == Trim(name)
      existing == {a \in g : /\ a.name = trimmedName
                             /\ a.type = type
                             /\ a.parent = parentId}
  IN IF fault
       THEN [err |-> "query_failed", id |-> NULL, geo |-> g, seq |-> s]
     ELSE IF existing # {}
       THEN [err |-> NoError, id |-> (CHOOSE a \in existing : TRUE).id,
             geo |-> g, seq |-> s]
     ELSE InsertGeographicArea(g, s, trimmedName, type, parentId)

\* One iteration of the row loop.  fault: 0 none, 1 the country lookup is
\* refused, 2 the admin-1 lookup is refused.
\* Result: [err, skip, rec, geo, seq, countryCache, admin1Cache]
ProcessRowResult(g, s, cc, ac, rid, row, fault) ==
  LET weekStr == row.week
      countryName == Trim(row.country)
      admin1Name == Trim(row.admin1)
      base == [err |-> NoError, skip |-> FALSE, rec |-> NULL, geo |-> g,
               seq |-> s, countryCache |-> cc, admin1Cache |-> ac]
  IN IF weekStr = "" THEN [base EXCEPT !.skip = TRUE]
     ELSE LET d == parseDate(weekStr) IN
     IF d.err # NoError THEN [base EXCEPT !.err = d.err]
     ELSE
       LET c == IF countryName = <<>>
                  THEN [err |-> NoError, id |-> NULL, geo |-> g, seq |-> s]
                ELSE IF countryName \in DOMAIN cc
                  THEN [err |-> NoError, id |-> cc[countryName], geo |-> g, seq |-> s]
                ELSE getOrCreateGeographicArea(g, s, countryName, "country",
                                               rid, fault = 1)
           cc2 == IF countryName # <<>> /\ countryName \notin DOMAIN cc
                     /\ c.err = NoError
                    THEN cc @@ (countryName :> c.id) ELSE cc
       IN IF c.err # NoError
            THEN [base EXCEPT !.err = c.err, !.geo = c.geo, !.seq = c.seq]
          ELSE
            LET cacheKey == << c.id, admin1Name >>
                a == IF admin1Name = <<>> \/ c.id = NULL
                       THEN [err |-> NoError, id |-> NULL, geo |-> c.geo, seq |-> c.seq]
                     ELSE IF cacheKey \in DOMAIN ac
                       THEN [err |-> NoError, id |-> ac[cacheKey],
                             geo |-> c.geo, seq |-> c.seq]
                     ELSE getOrCreateGeographicArea(c.geo, c.seq, admin1Name,
                                                    "admin_1", c.id, fault = 2)
                ac2 == IF admin1Name # <<>> /\ c.id # NULL
                          /\ cacheKey \notin DOMAIN ac /\ a.err = NoError
                         THEN ac @@ (cacheKey :> a.id) ELSE ac
            IN IF a.err # NoError
                 THEN [base EXCEPT !.err = a.err, !.geo = a.geo, !.seq = a.seq,
                                   !.countryCache = cc2]
               ELSE [err |-> NoError, skip |-> FALSE,
                     rec |-> [week |-> d.week, regionId |-> rid,
                              countryId |-> c.id, admin1Id |-> a.id],
                     geo |-> a.geo, seq |-> a.seq,
                     countryCache |-> cc2, admin1Cache |-> ac2]

\* a chunk loop that inserts full chunks only
Chunk_FullOnly(data, from) ==
  IF from + batchSize <= Len(data)
    THEN SubSeq(data, from + 1, from + batchSize) ELSE <<>>

\* aggregateData.slice(i, i + BATCH_SIZE), i counted from 0
Chunk(data, from) == SubSeq(data, from + 1, Min(from + batchSize, Len(data)))

\* a stored row of acled_weekly_agg: the key columns of an aggregate and
\* copy, which tells apart stored rows of equal key
Stored(rec, c) ==
  [week |-> rec.week, regionId |-> rec.regionId, countryId |-> rec.countryId,
   admin1Id |-> rec.admin1Id, copy |-> c]

KeyOf(r) ==
  [week |-> r.week, regionId |-> r.regionId, countryId |-> r.countryId,
   admin1Id |-> r.admin1Id]

RECURSIVE InsertAll(_, _)
InsertAll(t, chunk) ==
  IF chunk = <<>> THEN t
  ELSE LET rec == Head(chunk)
           c == 1 + Cardinality({r \in t : KeyOf(r) = rec})
       IN InsertAll(t \cup {Stored(rec, c)}, Tail(chunk))

\* the INSERT into a table whose key is not declared unique
InsertAggregates_NoPrimaryKey(t, chunk) ==
  LET n == Len(chunk) IN
  IF \E k \in 1..n : chunk[k].countryId = NULL \/ chunk[k].admin1Id = NULL
    THEN [err |-> "not_null_violation", agg |-> t]
  ELSE [err |-> NoError, agg |-> InsertAll(t, chunk)]

\* INSERT INTO acled_weekly_agg ... VALUES chunk, under the primary key
\* (week, region_id, country_id, admin1_id): its columns are NOT NULL and
\* the key is unique.  Result: [err, agg]
InsertAggregates(t, chunk) ==
  LET n == Len(chunk) IN
  IF \E k \in 1..n : chunk[k].countryId = NULL \/ chunk[k].admin1Id = NULL
    THEN [err |-> "not_null_violation", agg |-> t]
  ELSE IF \/ \E k \in 1..n : \E r \in t : KeyOf(r) = chunk[k]
          \/ \E j, k \in 1..n : j < k /\ chunk[j] = chunk[k]
    THEN [err |-> "unique_violation", agg |-> t]
  ELSE [err |-> NoError, agg |-> InsertAll(t, chunk)]

\* SELECT MIN(week) FROM (SELECT week ... WHERE region_id = rid
\*                        ORDER BY week DESC LIMIT n): NULL when no row
RecentMinWeek(t, rid, n) ==
  LET mine == {r \in t : r.regionId = rid}
      weeks == {r.week : r \in mine}
      above(w) == Cardinality({r \in mine : r.week > w})
      from(w) == Cardinality({r \in mine : r.week >= w})
  IN IF mine = {} \/ n = 0 THEN NULL
     ELSE IF Cardinality(mine) <= n
       THEN CHOOSE w \in weeks : \A v \in weeks : w <= v
     ELSE CHOOSE w \in weeks : above(w) < n /\ n <= from(w)

\* a DELETE whose outer WHERE clause does not name the region
DeleteOld_AnyRegion(t, rid, n) ==
  LET m == RecentMinWeek(t, rid, n)
  IN IF m = NULL THEN t
     ELSE {r \in t : ~(r.week < m)}

\* DELETE FROM acled_weekly_agg WHERE region_id = rid AND week < (that minimum)
DeleteOld(t, rid, n) ==
  LET m == RecentMinWeek(t, rid, n)
  IN IF m = NULL THEN t
     ELSE {r \in t : ~(r.regionId = rid /\ r.week < m)}

\* the last job of the region whatever its status
LastSuccessful_AnyStatus(js, region) ==
  LET hits == {k \in 1..Len(js) : /\ js[k].type = "acled_weekly_agg"
                                  /\ js[k].source = region}
  IN IF hits = {} THEN NULL ELSE CHOOSE k \in hits : \A h \in hits : h <= k

\* hasFilenameChanged(region, filename) on a ledger
LastSuccessful(js, region) ==
  LET hits == {k \in 1..Len(js) : /\ js[k].type = "acled_weekly_agg"
                                  /\ js[k].source = region
                                  /\ js[k].status = "successful"}
  IN IF hits = {} THEN NULL ELSE CHOOSE k \in hits : \A h \in hits : h <= k

\* a detector that compares with the file of the source's latest job,
\* whatever its status
hasFilenameChanged_AnyJob(js, region, fname) ==
  LET hits == {k \in 1..Len(js) : /\ js[k].type = "acled_weekly_agg"
                                  /\ js[k].source = region}
  IN IF hits = {} THEN TRUE
     ELSE js[CHOOSE k \in hits : \A h \in hits : h <= k].meta.filename # fname

hasFilenameChanged_Always(js, region, fname) == TRUE

hasFilenameChanged(js, region, fname) ==
  LET last == LastSuccessful(js, region)
  IN IF last = NULL THEN TRUE
     ELSE js[last].meta.filename # fname


\* ------------------------------------------------------------- transactions
\* a load that issues no BEGIN
BeginTx_None(open, g, t, sg, st) ==
  [txOpen |-> open, snapGeo |-> sg, snapAgg |-> st]

\* BEGIN on the pooled connection: [txOpen, snapGeo, snapAgg].  A BEGIN
\* inside an open transaction only warns.
BeginTx(open, g, t, sg, st) ==
  IF open THEN [txOpen |-> TRUE, snapGeo |-> sg, snapAgg |-> st]
  ELSE [txOpen |-> TRUE, snapGeo |-> g, snapAgg |-> t]

\* ROLLBACK (also what the server does with a transaction whose COMMIT it
\* refuses, or whose connection is lost): [geo, agg].  Without an open
\* transaction it only warns.
RollbackTx(open, g, t, sg, st) ==
  IF open THEN [geo |-> sg, agg |-> st] ELSE [geo |-> g, agg |-> t]

\* a catch block that throws the error on
LoopNext_Rethrow(k, err) ==
  IF err # NoError THEN [pc |-> "fatal", idx |-> k]
  ELSE IF k < Len(regionLinks) THEN [pc |-> "goto", idx |-> k + 1]
  ELSE [pc |-> "teardown", idx |-> k]

\* the for-loop of main after iteration k ended with exception err (or
\* none): the catch block only logs, so the loop goes on.  [pc, idx]
LoopNext(k, err) ==
  IF k < Len(regionLinks) THEN [pc |-> "goto", idx |-> k + 1]
  ELSE [pc |-> "teardown", idx |-> k]

\* ------------------------------------------------------------- Init
NoCall == [called |-> FALSE, region |-> <<>>, filename |-> Undefined,
           result |-> FALSE]
NoPrev == [valid |-> FALSE, nrows |-> 0, clean |-> FALSE, geo |-> {},
           agg |-> {}]

\* the loader runs against a schema already migrated: no runner at work
NoMigrator == [pc |-> "absent"]

InitLocals ==
  /\ filename = Undefined /\ nrows = 0 /\ weeksRead = <<>>
  /\ status = Undefined /\ errorMessage = Undefined /\ thrown = NoError
  /\ regionId = NULL /\ i = 0
  /\ countryCache = <<>> /\ admin1Cache = <<>> /\ aggregateData = <<>>
  /\ detected = FALSE /\ called = FALSE
  /\ hfc = NoCall /\ preGeo = {} /\ preAgg = {} /\ preJobs = 0
  /\ batchSize = BATCH_SIZE
  /\ clients = <<>>
  /\ mig = NoMigrator
  /\ tz = 0 /\ ops = <<>>

\* the locals of an iteration go out of scope; the two Maps of a load stay
\* as they were until the next load makes its own
ResetLocals ==
  /\ filename' = Undefined /\ nrows' = 0 /\ weeksRead' = <<>>
  /\ status' = Undefined /\ errorMessage' = Undefined /\ thrown' = NoError
  /\ regionId' = NULL /\ i' = 0
  /\ UNCHANGED << countryCache, admin1Cache >> /\ aggregateData' = <<>>
  /\ detected' = FALSE /\ called' = FALSE
  /\ hfc' = NoCall /\ preGeo' = {} /\ preAgg' = {} /\ preJobs' = 0
  /\ ops' = <<>>

InitStore ==
  /\ geo = {} /\ agg = {} /\ seq = 0
  /\ txOpen = FALSE /\ snapGeo = {} /\ snapAgg = {}

Init ==
  /\ InitStore
  /\ jobs = <<>>
  /\ run = 0 /\ pc = "idle" /\ idx = 0
  /\ InitLocals /\ sheet = <<>>
  /\ visited = <<>> /\ prev = NoPrev
  /\ faults = 0 /\ loads = 0

Region == regionLinks[idx]

\* an awaited call is refused (fault) only within the budget of failures
Refuse(fault) ==
  /\ fault => faults < MaxFaults
  /\ faults' = IF fault THEN faults + 1 ELSE faults

\* ------------------------------------------------------------- main
\* main up to the for-loop: launch, login, find the region links
StartRun(fault) ==
  /\ pc \in {"idle", "completed", "fatal"}
  /\ run < MaxRuns
  /\ Refuse(fault)
  /\ run' = run + 1
  /\ visited' = <<>>
  /\ IF fault THEN pc' = "fatal" /\ idx' = 0
     ELSE pc' = "goto" /\ idx' = 1
  /\ UNCHANGED << mig, tz, ops, clients, batchSize, loads, dbVars, jobs, filename, rowVars, loadVars, thrown, hfc,
                  detected, called, preGeo, preAgg, preJobs, prev >>

\* page.goto(url), waitForSelector, read the download link
GotoRegionPage(outcome, f) ==
  /\ pc = "goto"
  /\ Refuse(outcome = "fail")
  /\ visited' = Append(visited, Region)
  /\ preGeo' = CommittedGeo /\ preAgg' = CommittedAgg /\ preJobs' = Len(jobs)
  /\ CASE outcome = "ok" ->
            filename' = f /\ thrown' = NoError /\ pc' = "detect"
       [] outcome = "fail" ->
            filename' = filename /\ thrown' = "navigation_failed" /\ pc' = "endloop"
       [] outcome = "nolink" ->
            filename' = filename /\ thrown' = NoError /\ pc' = "endloop"
  /\ UNCHANGED << mig, tz, ops, clients, batchSize, loads, dbVars, jobs, run, idx, rowVars, loadVars, hfc, detected,
                  called, prev >>

\* if (!await hasFilenameChanged(region, filename)) continue
DetectChange(fault) ==
  /\ pc = "detect"
  /\ Refuse(fault)
  /\ IF fault
       THEN thrown' = "query_failed" /\ pc' = "endloop"
            /\ UNCHANGED << hfc, detected >>
       ELSE LET r == hasFilenameChanged(jobs, Region, filename)
            IN /\ hfc' = [called |-> TRUE, region |-> Region,
                          filename |-> filename, result |-> r]
               /\ detected' = r
               /\ pc' = IF r THEN "download" ELSE "endloop"
               /\ thrown' = thrown
  /\ UNCHANGED << mig, tz, ops, clients, batchSize, loads, dbVars, jobs, run, idx, filename, rowVars, loadVars, visited,
                  called, preGeo, preAgg, preJobs, prev >>

\* page.goto(href), response.buffer(), Bun.write; then processRegionFile is
\* called
Download(fault) ==
  /\ pc = "download"
  /\ Refuse(fault)
  /\ IF fault
       THEN /\ thrown' = "download_failed" /\ pc' = "endloop"
            /\ UNCHANGED << called, loads >>
       ELSE /\ loads < MaxLoads /\ loads' = loads + 1
            /\ called' = TRUE /\ pc' = "connect" /\ thrown' = thrown
  /\ UNCHANGED << mig, tz, ops, clients, batchSize, dbVars, jobs, run, idx, filename, rowVars, loadVars, visited,
                  hfc, detected, preGeo, preAgg, preJobs, prev >>

\* the end of one iteration of the for-loop (its catch block included)
EndIteration ==
  /\ pc = "endloop"
  /\ LET n == LoopNext(idx, thrown) IN pc' = n.pc /\ idx' = n.idx
  /\ ResetLocals
  /\ UNCHANGED << mig, tz, clients, batchSize, loads, dbVars, jobs, run, sheet, visited, prev, faults >>

\* 'Completed successfully!' was printed; finally: browser.close, pool.end
Teardown(fault) ==
  /\ pc = "teardown"
  /\ Refuse(fault)
  /\ pc' = IF fault THEN "fatal" ELSE "completed"
  /\ UNCHANGED << mig, tz, ops, clients, batchSize, loads, dbVars, jobs, run, idx, filename, rowVars, loadVars, thrown,
                  histVars >>

\* ------------------------------------------------------------- processRegionFile
\* an outer catch that leaves status as it was
Caught_KeepStatus(e) ==
  /\ status' = status /\ errorMessage' = e /\ thrown' = e /\ pc' = "ledger"

\* an outer catch that does not record the message of the error
Caught_NoMessage(e) ==
  /\ status' = "failed" /\ errorMessage' = errorMessage /\ thrown' = e
  /\ pc' = "ledger"

\* an outer catch that is not followed by the finally block
Caught_NoFinally(e) ==
  /\ status' = "failed" /\ errorMessage' = e /\ thrown' = e /\ pc' = "endloop"

\* the outer catch: status = 'failed', errorMessage = the error, rethrow;
\* control then reaches the finally block
Caught(e) ==
  /\ status' = "failed" /\ errorMessage' = e /\ thrown' = e /\ pc' = "ledger"

\* let status = 'successful'; const client = await pool.connect()
Connect(fault) ==
  /\ pc = "connect"
  /\ Refuse(fault)
  /\ ops' = IF fault THEN <<>> ELSE << "connect" >>
  /\ status' = "successful" /\ errorMessage' = Undefined
  /\ IF fault THEN thrown' = "connect_failed" /\ pc' = "endloop"
     ELSE thrown' = thrown /\ pc' = "parse"
  /\ UNCHANGED << mig, tz, clients, batchSize, loads, dbVars, jobs, run, idx, filename, rowVars, regionId, i,
                  countryCache, admin1Cache, aggregateData, histVars >>

\* readFileSync, XLSX.read, the worksheet, sheet_to_json: the sheet has n
\* rows, whose cells the row loop reads one row at a time
ParseFile(fault, n) ==
  /\ pc = "parse"
  /\ Refuse(fault)
  /\ IF fault THEN Caught("file_unreadable") /\ nrows' = nrows
     ELSE /\ pc' = "begin" /\ nrows' = n
          /\ UNCHANGED << status, errorMessage, thrown >>
  /\ UNCHANGED << mig, tz, ops, clients, batchSize, loads, dbVars, jobs, run, idx, filename, sheet, weeksRead, regionId,
                  i, countryCache, admin1Cache, aggregateData, histVars >>

\* await client.query('BEGIN'): a failure is caught by the outer catch only
Begin(fault) ==
  /\ pc = "begin"
  /\ Refuse(fault)
  /\ ops' = IF fault THEN ops ELSE Append(ops, "BEGIN")
  /\ IF fault
       THEN Caught("query_failed") /\ UNCHANGED << txOpen, snapGeo, snapAgg >>
       ELSE LET b == BeginTx(txOpen, geo, agg, snapGeo, snapAgg)
            IN /\ txOpen' = b.txOpen /\ snapGeo' = b.snapGeo /\ snapAgg' = b.snapAgg
               /\ pc' = "region"
               /\ UNCHANGED << status, errorMessage, thrown >>
  /\ UNCHANGED << mig, tz, clients, batchSize, loads, geo, agg, seq, jobs, run, idx, filename, rowVars, regionId, i,
                  countryCache, admin1Cache, aggregateData, histVars >>

\* a load that goes on with the caches the load before it left behind
ResolveRegion_KeepCaches(fault) ==
  /\ pc = "region"
  /\ Refuse(fault)
  /\ LET r == getOrCreateGeographicArea(geo, seq, Region, "region", NULL, fault)
     IN /\ geo' = r.geo /\ seq' = r.seq
        /\ IF r.err # NoError
             THEN /\ thrown' = r.err /\ pc' = "rollback"
                  /\ UNCHANGED << regionId, i, countryCache, admin1Cache,
                                  aggregateData >>
             ELSE /\ regionId' = r.id /\ i' = 1
                  /\ UNCHANGED << countryCache, admin1Cache >>
                  /\ aggregateData' = <<>>
                  /\ thrown' = thrown
                  /\ pc' = IF nrows = 0 THEN "retire" ELSE "rows"
  /\ UNCHANGED << mig, tz, ops, clients, batchSize, loads, agg, txOpen, snapGeo, snapAgg, jobs, run, idx, filename,
                  rowVars, status, errorMessage, histVars >>

\* regionId = getOrCreateGeographicArea(client, region, 'region'); the two
\* caches and aggregateData are created empty
ResolveRegion(fault) ==
  /\ pc = "region"
  /\ Refuse(fault)
  /\ LET r == getOrCreateGeographicArea(geo, seq, Region, "region", NULL, fault)
     IN /\ geo' = r.geo /\ seq' = r.seq
        /\ IF r.err # NoError
             THEN /\ thrown' = r.err /\ pc' = "rollback"
                  /\ UNCHANGED << regionId, i, countryCache, admin1Cache,
                                  aggregateData >>
             ELSE /\ regionId' = r.id /\ i' = 1
                  /\ countryCache' = <<>> /\ admin1Cache' = <<>>
                  /\ aggregateData' = <<>>
                  /\ thrown' = thrown
                  /\ pc' = IF nrows = 0 THEN "retire" ELSE "rows"
  /\ UNCHANGED << mig, tz, ops, clients, batchSize, loads, agg, txOpen, snapGeo, snapAgg, jobs, run, idx, filename,
                  rowVars, status, errorMessage, histVars >>

\* one iteration of for (const row of rows); after the last row the chunk
\* loop starts (it is skipped when aggregateData is empty)
ProcessRow(fault, row, keep) ==
  /\ pc = "rows"
  /\ Refuse(fault # 0)
  /\ LET r == ProcessRowResult(geo, seq, countryCache, admin1Cache, regionId,
                               row, fault)
         data == IF r.skip THEN aggregateData ELSE Append(aggregateData, r.rec)
     IN /\ fault # 0 => r.err = "query_failed"
        /\ weeksRead' = Append(weeksRead, row.week)
        /\ sheet' = IF keep THEN Append(sheet, row) ELSE sheet
        /\ geo' = r.geo /\ seq' = r.seq
        /\ IF r.err # NoError
             THEN /\ thrown' = r.err /\ pc' = "rollback"
                  /\ UNCHANGED << i, countryCache, admin1Cache, aggregateData >>
             ELSE /\ countryCache' = r.countryCache
                  /\ admin1Cache' = r.admin1Cache
                  /\ aggregateData' = data
                  /\ thrown' = thrown
                  /\ IF i < nrows THEN i' = i + 1 /\ pc' = "rows"
                     ELSE /\ i' = 0
                          /\ pc' = IF Len(data) > 0 THEN "insert" ELSE "retire"
  /\ UNCHANGED << mig, tz, ops, clients, batchSize, loads, agg, txOpen, snapGeo, snapAgg, jobs, run, idx,
                  filename, nrows, status, errorMessage, regionId, histVars >>

\* one iteration of for (i = 0; i < aggregateData.length; i += BATCH_SIZE)
InsertChunk(fault) ==
  /\ pc = "insert"
  /\ Refuse(fault)
  /\ LET r == IF fault THEN [err |-> "query_failed", agg |-> agg]
              ELSE InsertAggregates(agg, Chunk(aggregateData, i))
     IN /\ agg' = r.agg
        /\ IF r.err # NoError
             THEN thrown' = r.err /\ pc' = "rollback" /\ i' = i
             ELSE /\ thrown' = thrown
                  /\ i' = i + batchSize
                  /\ pc' = IF i + batchSize < Len(aggregateData)
                             THEN "insert" ELSE "retire"
  /\ UNCHANGED << mig, tz, ops, clients, batchSize, loads, geo, seq, txOpen, snapGeo, snapAgg, jobs, run, idx,
                  filename, rowVars, status, errorMessage, regionId,
                  countryCache, admin1Cache, aggregateData, histVars >>

\* the DELETE of old data, with [regionId, rows.length]
Retire(fault) ==
  /\ pc = "retire"
  /\ Refuse(fault)
  /\ IF fault
       THEN thrown' = "query_failed" /\ pc' = "rollback" /\ agg' = agg
       ELSE /\ agg' = DeleteOld(agg, regionId, nrows)
            /\ thrown' = thrown /\ pc' = "commit"
  /\ UNCHANGED << mig, tz, ops, clients, batchSize, loads, geo, seq, txOpen, snapGeo, snapAgg, jobs, run, idx,
                  filename, rowVars, loadVars, histVars >>

\* await client.query('COMMIT'); a COMMIT the server refuses ends the
\* transaction rolled back
Commit(fault) ==
  /\ pc = "commit"
  /\ Refuse(fault)
  /\ ops' = Append(ops, IF fault THEN "COMMIT refused" ELSE "COMMIT")
  /\ txOpen' = FALSE
  /\ IF fault
       THEN LET r == RollbackTx(txOpen, geo, agg, snapGeo, snapAgg)
            IN /\ geo' = r.geo /\ agg' = r.agg
               /\ thrown' = "query_failed" /\ pc' = "rollback"
       ELSE /\ UNCHANGED << geo, agg >>
            /\ thrown' = thrown /\ pc' = "ledger"
  /\ UNCHANGED << mig, tz, clients, batchSize, loads, seq, snapGeo, snapAgg, jobs, run, idx, filename, rowVars,
                  loadVars, histVars >>

\* an inner catch that throws the error on without a ROLLBACK
Rollback_Skip(fault) ==
  /\ pc = "rollback"
  /\ Refuse(fault)
  /\ ops' = ops
  /\ Caught(IF fault THEN "rollback_failed" ELSE thrown)
  /\ UNCHANGED << mig, tz, clients, batchSize, loads, dbVars, jobs, run, idx, filename, rowVars,
                  regionId, i, countryCache, admin1Cache, aggregateData,
                  histVars >>

\* the inner catch: await client.query('ROLLBACK'); throw error.  When the
\* ROLLBACK itself fails its error is the one thrown on.
Rollback(fault) ==
  /\ pc = "rollback"
  /\ Refuse(fault)
  /\ ops' = Append(ops, IF ~txOpen THEN "ROLLBACK without transaction"
                      ELSE IF fault THEN "ROLLBACK refused" ELSE "ROLLBACK")
  /\ LET r == RollbackTx(txOpen, geo, agg, snapGeo, snapAgg)
     IN geo' = r.geo /\ agg' = r.agg
  /\ txOpen' = FALSE
  /\ Caught(IF fault THEN "rollback_failed" ELSE thrown)
  /\ UNCHANGED << mig, tz, clients, batchSize, loads, seq, snapGeo, snapAgg, jobs, run, idx, filename, rowVars,
                  regionId, i, countryCache, admin1Cache, aggregateData,
                  histVars >>

\* a finally block that keeps one data_job row per source, overwriting the
\* row of the source's earlier attempt
RecordJob_Upsert(fault) ==
  /\ pc = "ledger"
  /\ Refuse(fault)
  /\ ops' = IF fault THEN Append(ops, "release")
            ELSE ops \o << "release", "data_job" >>
  /\ LET job == [source |-> Region, status |-> status,
                 type |-> "acled_weekly_agg",
                 meta |-> [filename |-> filename, error |-> errorMessage]]
         old == {k \in 1..Len(jobs) : jobs[k].source = Region}
     IN IF fault
          THEN thrown' = "ledger_failed" /\ jobs' = jobs
          ELSE /\ thrown' = thrown
               /\ jobs' = IF old = {} THEN Append(jobs, job)
                          ELSE [k \in 1..Len(jobs) |->
                                  IF k \in old THEN job ELSE jobs[k]]
  /\ pc' = "endloop"
  /\ UNCHANGED << mig, tz, clients, batchSize, loads, dbVars, run, idx, filename, rowVars, loadVars, histVars >>

\* a finally block that releases the connection after the data_job insert
RecordJob_ReleaseLast(fault) ==
  /\ pc = "ledger"
  /\ Refuse(fault)
  /\ ops' = IF fault THEN Append(ops, "release")
            ELSE ops \o << "data_job", "release" >>
  /\ IF fault
       THEN thrown' = "ledger_failed" /\ jobs' = jobs
       ELSE /\ thrown' = thrown
            /\ jobs' = Append(jobs,
                 [source |-> Region, status |-> status,
                  type |-> "acled_weekly_agg",
                  meta |-> [filename |-> filename, error |-> errorMessage]])
  /\ pc' = "endloop"
  /\ UNCHANGED << mig, tz, clients, batchSize, loads, dbVars, run, idx, filename, rowVars, loadVars, histVars >>

\* finally: client.release(); INSERT INTO data_job through the pool.  An
\* exception of the finally block replaces the one in flight.
RecordJob(fault) ==
  /\ pc = "ledger"
  /\ Refuse(fault)
  /\ ops' = IF fault THEN Append(ops, "release")
            ELSE ops \o << "release", "data_job" >>
  /\ IF fault
       THEN thrown' = "ledger_failed" /\ jobs' = jobs
       ELSE /\ thrown' = thrown
            /\ jobs' = Append(jobs,
                 [source |-> Region, status |-> status,
                  type |-> "acled_weekly_agg",
                  meta |-> [filename |-> filename, error |-> errorMessage]])
  /\ pc' = "endloop"
  /\ UNCHANGED << mig, tz, clients, batchSize, loads, dbVars, run, idx, filename, rowVars, loadVars, histVars >>

\* ------------------------------------------------------------- Spec
LoadStep ==
  \/ \E fault \in BOOLEAN : Connect(fault)
  \/ \E fault \in BOOLEAN : Begin(fault)
  \/ \E fault \in BOOLEAN : ResolveRegion(fault)
  \/ \E fault \in BOOLEAN : InsertChunk(fault)
  \/ \E fault \in BOOLEAN : Retire(fault)
  \/ \E fault \in BOOLEAN : Commit(fault)
  \/ \E fault \in BOOLEAN : Rollback(fault)
  \/ \E fault \in BOOLEAN : RecordJob(fault)

Next ==
  \/ \E fault \in BOOLEAN : StartRun(fault)
  \/ \E outcome \in {"ok", "fail", "nolink"}, f \in Filenames :
       GotoRegionPage(outcome, f)
  \/ \E fault \in BOOLEAN : DetectChange(fault)
  \/ \E fault \in BOOLEAN : Download(fault)
  \/ \E fault \in BOOLEAN, n \in 0..MaxRows : ParseFile(fault, n)
  \/ \E fault \in 0..2, row \in RawRows : ProcessRow(fault, row, FALSE)
  \/ LoadStep
  \/ EndIteration
  \/ \E fault \in BOOLEAN : Teardown(fault)

Spec == Init /\ [][Next]_vars

\* ------------------------------------------------------------- SpecRepeat
\* processRegionFile called directly MaxLoads times, and the last call
\* possibly a second time with the same arguments and the same file: the
\* rows that call read are kept in sheet and read again by the second.
\* One awaited call at most is refused.
InitRepeat ==
  /\ InitStore
  /\ jobs = <<>>
  /\ run = 0 /\ pc = "caller" /\ idx = 0
  /\ InitLocals /\ sheet = <<>>
  /\ visited = <<>> /\ prev = NoPrev
  /\ faults = MaxFaults - 1 /\ loads = 0

\* the awaited calls whose refusal is not decided by the call's arguments
Refusals == {"query_failed", "file_unreadable", "rollback_failed",
             "connect_failed"}

\* the file name does not influence a load: one name stands for all
RepeatFile == CHOOSE f \in Filenames : TRUE

\* processRegionFile(region, filePath, filename)
CallProcessRegionFile(k, f) ==
  /\ pc = "caller"
  /\ loads < MaxLoads /\ loads' = loads + 1
  /\ idx' = k /\ filename' = f
  /\ called' = TRUE
  /\ pc' = "connect"
  /\ UNCHANGED << mig, tz, ops, clients, batchSize, dbVars, jobs, run, rowVars, loadVars, thrown, visited, hfc,
                  detected, preGeo, preAgg, preJobs, prev, faults >>

\* the same call once more, right after the first returned or threw
CallAgain ==
  /\ pc = "endloop" /\ ~prev.valid /\ loads = MaxLoads
  /\ prev' = [valid |-> TRUE, nrows |-> nrows,
              clean |-> thrown \notin Refusals /\ errorMessage \notin Refusals,
              geo |-> CommittedGeo, agg |-> CommittedAgg]
  /\ nrows' = 0 /\ weeksRead' = <<>>
  /\ status' = Undefined /\ errorMessage' = Undefined /\ thrown' = NoError
  /\ regionId' = NULL /\ i' = 0
  /\ UNCHANGED << countryCache, admin1Cache >> /\ aggregateData' = <<>>
  /\ pc' = "connect"
  /\ UNCHANGED << mig, tz, ops, clients, batchSize, dbVars, jobs, run, idx, filename, sheet, visited, hfc,
                  detected, called, preGeo, preAgg, preJobs, faults, loads >>

\* the caller goes on
Return ==
  /\ pc = "endloop"
  /\ ResetLocals
  /\ sheet' = <<>> /\ prev' = NoPrev /\ idx' = 0
  /\ pc' = "caller"
  /\ UNCHANGED << mig, tz, clients, batchSize, dbVars, jobs, run, visited, faults, loads >>

\* the file of a second call is the file of the first
ParseFileRepeat(fault) ==
  IF prev.valid THEN ParseFile(fault, prev.nrows)
  ELSE \E n \in 0..MaxRows : ParseFile(fault, n)

ProcessRowRepeat(fault) ==
  /\ pc = "rows"
  /\ IF i <= Len(sheet) THEN ProcessRow(fault, sheet[i], FALSE)
     ELSE \E row \in RawRows : ProcessRow(fault, row, loads = MaxLoads)

NextRepeat ==
  \/ \E k \in 1..Len(regionLinks) : CallProcessRegionFile(k, RepeatFile)
  \/ CallAgain
  \/ Return
  \/ \E fault \in BOOLEAN : ParseFileRepeat(fault)
  \/ \E fault \in 0..2 : ProcessRowRepeat(fault)
  \/ LoadStep

SpecRepeat == InitRepeat /\ [][NextRepeat]_vars

\* ------------------------------------------------------------- SpecChange
\* hasFilenameChanged on ledgers of every shape the table allows
JobRows == [source : {regionLinks[k] : k \in 1..Len(regionLinks)},
            status : {"successful", "failed"},
            type : {"acled_weekly_agg", "other"},
            meta : [filename : Filenames \cup {Undefined},
                    error : {Undefined}]]

InitChange ==
  /\ InitStore
  /\ jobs \in SeqsUpTo(JobRows, MaxJobs)
  /\ run = 0 /\ pc = "change" /\ idx = 0
  /\ InitLocals /\ sheet = <<>>
  /\ visited = <<>> /\ prev = NoPrev
  /\ faults = 0 /\ loads = 0

CallHasFilenameChanged(region, f) ==
  /\ pc = "change"
  /\ hfc' = [called |-> TRUE, region |-> region, filename |-> f,
             result |-> hasFilenameChanged(jobs, region, f)]
  /\ pc' = "changed"
  /\ UNCHANGED << mig, tz, ops, clients, batchSize, dbVars, jobs, run, idx, filename, rowVars, loadVars, thrown,
                  visited, detected, called, preGeo, preAgg, preJobs, prev,
                  faults, loads >>

NextChange ==
  \E k \in 1..Len(regionLinks), f \in Filenames :
    CallHasFilenameChanged(regionLinks[k], f)

SpecChange == InitChange /\ [][NextChange]_vars

\* ------------------------------------------------------------- SpecResolve
\* getOrCreateGeographicArea called directly, outside a transaction, with
\* every name, type and parent id the signature admits
GeographicAreaTypes == {"region", "country", "admin_1"}
AreaNames == { <<"A">>, <<"X">> }
ParentIds == 0..MaxAreas

InitResolve ==
  /\ InitStore
  /\ jobs = <<>>
  /\ run = 0 /\ pc = "resolve" /\ idx = 0
  /\ InitLocals /\ sheet = <<>>
  /\ visited = <<>> /\ prev = NoPrev
  /\ faults = 0 /\ loads = 0

\* one call; the error it throws, if any, is left in thrown
CallGetOrCreateGeographicArea(name, type, parentId) ==
  /\ pc = "resolve"
  /\ seq < MaxAreas
  /\ LET r == getOrCreateGeographicArea(geo, seq, name, type, parentId, FALSE)
     IN geo' = r.geo /\ seq' = r.seq /\ thrown' = r.err
  /\ UNCHANGED << mig, tz, ops, clients, batchSize, agg, txOpen, snapGeo, snapAgg, jobs, run, pc, idx, filename,
                  rowVars, loadVars, histVars, faults, loads >>

NextResolve ==
  \E name \in AreaNames, type \in GeographicAreaTypes, parentId \in ParentIds :
    CallGetOrCreateGeographicArea(name, type, parentId)

SpecResolve == InitResolve /\ [][NextResolve]_vars

\* ------------------------------------------------------------- SpecCounts
\* the count fields of a row: parseInt(row['Events'] || ... || '0') and
\* its like.  A cell is absent, a text or a number (sheet_to_json yields
\* numbers for numeric cells).
TextCell(t) == [kind |-> "text", text |-> t, num |-> 0]
NumberCell(n) == [kind |-> "number", text |-> <<>>, num |-> n]
AbsentCell == [kind |-> "absent", text |-> <<>>, num |-> 0]

CountCells ==
  { AbsentCell,
    TextCell(<<>>), TextCell(<<"0">>), TextCell(<<"7">>),
    TextCell(<<"-", "3">>), TextCell(<<"a", "b", "c">>),
    TextCell(<<"1", "2", "a">>), TextCell(<<" ", "5">>),
    NumberCell(0), NumberCell(7), NumberCell(-3) }

DigitChars == <<"0", "1", "2", "3", "4", "5", "6", "7", "8", "9">>
IsDigit(c) == \E d \in 1..10 : DigitChars[d] = c
DigitValue10(c) == (CHOOSE d \in 1..10 : DigitChars[d] = c) - 1

\* String(n) of an integer
RECURSIVE DigitsOf(_)
DigitsOf(n) ==
  IF n < 10 THEN << DigitChars[n + 1] >>
  ELSE DigitsOf(n \div 10) \o << DigitChars[(n % 10) + 1] >>

NumberToString(n) == IF n < 0 THEN <<"-">> \o DigitsOf(0 - n) ELSE DigitsOf(n)

\* the leading run of digits of s: how many, and their value
RECURSIVE LeadingDigits(_, _, _)
LeadingDigits(s, count, value) ==
  IF s = <<>> \/ ~IsDigit(Head(s)) THEN [count |-> count, value |-> value]
  ELSE LeadingDigits(Tail(s), count + 1, 10 * value + DigitValue10(Head(s)))

\* a JavaScript number that is an integer or NaN
NaN == [nan |-> TRUE, value |-> 0]
Number(n) == [nan |-> FALSE, value |-> n]

\* a || b on cells: undefined, '' and 0 are falsy
Falsy(cell) ==
  \/ cell.kind = "absent"
  \/ cell.kind = "text" /\ cell.text = <<>>
  \/ cell.kind = "number" /\ cell.num = 0

OrZero(cell) == IF Falsy(cell) THEN TextCell(<<"0">>) ELSE cell

\* parseInt(string): leading white space skipped, an optional sign, then
\* the leading digits; NaN when there is none
parseInt(cell) ==
  LET text == IF cell.kind = "number" THEN NumberToString(cell.num)
              ELSE cell.text
      t == TrimLeft(text)
      signed == t # <<>> /\ Head(t) \in {"-", "+"}
      body == IF signed THEN Tail(t) ELSE t
      d == LeadingDigits(body, 0, 0)
  IN IF d.count = 0 THEN NaN
     ELSE IF signed /\ Head(t) = "-" THEN Number(0 - d.value)
     ELSE Number(d.value)

CountRows == [Events : CountCells, Fatalities : CountCells,
              PopulationExposure : CountCells]

InitCounts ==
  /\ InitStore
  /\ jobs = <<>>
  /\ run = 0 /\ pc = "counts" /\ idx = 0
  /\ InitLocals /\ sheet \in {<< row >> : row \in CountRows}
  /\ visited = <<>> /\ prev = NoPrev
  /\ faults = 0 /\ loads = 0

\* the three count fields of the record pushed for the row
ReadCounts ==
  /\ pc = "counts"
  /\ LET row == sheet[1]
     IN aggregateData' =
          << [eventCount |-> parseInt(OrZero(row.Events)),
              fatalities |-> parseInt(OrZero(row.Fatalities)),
              popExposure |-> parseInt(OrZero(row.PopulationExposure))] >>
  /\ pc' = "counted"
  /\ UNCHANGED << mig, tz, ops, clients, batchSize, dbVars, jobs, run, idx, filename, rowVars, status,
                  errorMessage, regionId, i, countryCache, admin1Cache, thrown,
                  histVars, faults, loads >>

NextCounts == ReadCounts

SpecCounts == InitCounts /\ [][NextCounts]_vars

\* ------------------------------------------------------------- SpecChunk
\* the chunk loop alone, inside the transaction of a load of the first
\* region, on every batch of resolved records and with every chunk size
ChunkAreas ==
  { [id |-> 1, name |-> regionLinks[1], type |-> "region", parent |-> NULL],
    [id |-> 2, name |-> <<"A">>, type |-> "country", parent |-> 1],
    [id |-> 3, name |-> <<"X">>, type |-> "admin_1", parent |-> 2] }

ChunkRecords == [week : {1, 2, 3}, regionId : {1}, countryId : {2},
                 admin1Id : {3, NULL}]

InitChunk ==
  /\ geo = ChunkAreas /\ snapGeo = ChunkAreas /\ seq = 3
  /\ agg = {} /\ snapAgg = {} /\ txOpen = TRUE
  /\ jobs = <<>> /\ run = 1 /\ idx = 1
  /\ filename = RepeatFile /\ sheet = <<>> /\ weeksRead = <<>>
  /\ status = "successful" /\ errorMessage = Undefined /\ thrown = NoError
  /\ regionId = 1 /\ i = 0
  /\ countryCache = <<>> /\ admin1Cache = <<>>
  /\ aggregateData \in SeqsUpTo(ChunkRecords, MaxBatch)
  /\ nrows = Len(aggregateData)
  /\ batchSize \in 1..MaxChunk
  /\ clients = <<>>
  /\ mig = NoMigrator
  /\ tz = 0 /\ ops = << "connect", "BEGIN" >>
  /\ pc = IF Len(aggregateData) > 0 THEN "insert" ELSE "retire"
  /\ visited = << regionLinks[1] >> /\ hfc = NoCall
  /\ detected = TRUE /\ called = TRUE
  /\ preGeo = ChunkAreas /\ preAgg = {} /\ preJobs = 0 /\ prev = NoPrev
  /\ faults = 0 /\ loads = 1

NextChunk == InsertChunk(FALSE)

SpecChunk == InitChunk /\ [][NextChunk]_vars

\* ------------------------------------------------------------- SpecRace
\* two loads run side by side, each on a connection of its own and inside
\* a transaction (READ COMMITTED, the server's default): a statement sees
\* the committed rows and the rows its own transaction inserted.
RaceClients == {1, 2}
RaceParents == {NULL, 1}

NoClient == [pc |-> "idle", name |-> <<>>, type |-> "region", parent |-> NULL,
             own |-> {}, inserted |-> {}, id |-> NULL, err |-> NoError,
             calls |-> 0]

\* the unique index on (type, name): rows holds an entry for the pair
Conflicts(rows, type, name) == \E a \in rows : a.type = type /\ a.name = name

\* an index that lets an INSERT through while another transaction's entry
\* for the same pair is not yet committed or rolled back
BlockedBy_Never(c, d) == FALSE

\* the INSERT of client c waits for the end of client d's transaction,
\* which holds an uncommitted index entry for the same (type, name)
BlockedBy(c, d) ==
  /\ d # c
  /\ Conflicts(clients[d].own, clients[c].type, clients[c].name)

\* c waits for d while d is about to insert a pair c holds
Deadlocked(c, d) ==
  /\ BlockedBy(c, d)
  /\ clients[d].pc = "missing" /\ BlockedBy(d, c)

InitRace ==
  /\ InitStore
  /\ jobs = <<>>
  /\ run = 0 /\ pc = "race" /\ idx = 0
  /\ filename = Undefined /\ nrows = 0 /\ weeksRead = <<>>
  /\ status = Undefined /\ errorMessage = Undefined /\ thrown = NoError
  /\ regionId = NULL /\ i = 0
  /\ countryCache = <<>> /\ admin1Cache = <<>> /\ aggregateData = <<>>
  /\ detected = FALSE /\ called = FALSE
  /\ hfc = NoCall /\ preGeo = {} /\ preAgg = {} /\ preJobs = 0
  /\ batchSize = BATCH_SIZE
  /\ clients = [c \in RaceClients |-> NoClient]
  /\ mig = NoMigrator
  /\ tz = 0 /\ ops = <<>>
  /\ sheet = <<>> /\ visited = <<>> /\ prev = NoPrev
  /\ faults = 0 /\ loads = 0

RaceUnchanged ==
  UNCHANGED << mig, tz, ops, batchSize, agg, txOpen, snapGeo, snapAgg, jobs, run, pc, idx,
               filename, rowVars, loadVars, thrown, histVars, faults, loads >>

\* client c: BEGIN, then a call getOrCreateGeographicArea(name, type,
\* parentId) of its load, or a further call later in the same load
RaceCall(c, name, type, parentId) ==
  /\ clients[c].pc \in {"idle", "resolved"}
  /\ clients[c].calls < MaxCalls
  /\ clients' = [clients EXCEPT ![c].pc = "select",
                                ![c].name = Trim(name), ![c].type = type,
                                ![c].parent = parentId, ![c].id = NULL,
                                ![c].calls = @ + 1]
  /\ UNCHANGED << geo, seq >>
  /\ RaceUnchanged

\* client c: the SELECT of getOrCreateGeographicArea
RaceSelect(c) ==
  /\ clients[c].pc = "select"
  /\ LET existing == {a \in geo \cup clients[c].own :
                        /\ a.name = clients[c].name
                        /\ a.type = clients[c].type
                        /\ a.parent = clients[c].parent}
     IN clients' = IF existing # {}
                     THEN [clients EXCEPT ![c].pc = "resolved",
                             ![c].id = (CHOOSE a \in existing : TRUE).id]
                     ELSE [clients EXCEPT ![c].pc = "missing"]
  /\ UNCHANGED << geo, seq >>
  /\ RaceUnchanged

\* client c: the INSERT of getOrCreateGeographicArea
RaceInsert(c) ==
  /\ clients[c].pc = "missing"
  /\ seq < MaxAreas
  /\ \A d \in RaceClients : BlockedBy(c, d) => Deadlocked(c, d)
  /\ LET r == IF \E d \in RaceClients : BlockedBy(c, d)
                THEN [err |-> "deadlock_detected", id |-> NULL, seq |-> seq + 1]
                ELSE InsertGeographicArea(geo \cup clients[c].own, seq,
                       clients[c].name, clients[c].type, clients[c].parent)
         row == [id |-> r.id, name |-> clients[c].name,
                 type |-> clients[c].type, parent |-> clients[c].parent]
     IN /\ seq' = r.seq
        /\ clients' = IF r.err # NoError
                        THEN [clients EXCEPT ![c].pc = "failed",
                                             ![c].err = r.err]
                        ELSE [clients EXCEPT ![c].pc = "resolved",
                                ![c].id = r.id,
                                ![c].own = @ \cup {row},
                                ![c].inserted = @ \cup {row}]
  /\ UNCHANGED geo
  /\ RaceUnchanged

\* client c: COMMIT at the end of its load
RaceCommit(c) ==
  /\ clients[c].pc = "resolved"
  /\ geo' = geo \cup clients[c].own
  /\ clients' = [clients EXCEPT ![c].pc = "committed", ![c].own = {}]
  /\ UNCHANGED seq
  /\ RaceUnchanged

\* client c: ROLLBACK in the inner catch of its load, after a failed
\* resolver call or any other failed step
RaceRollback(c) ==
  /\ clients[c].pc \in {"select", "missing", "resolved", "failed"}
  /\ clients' = [clients EXCEPT ![c].pc = "rolledback", ![c].own = {},
                                ![c].inserted = {}]
  /\ UNCHANGED << geo, seq >>
  /\ RaceUnchanged

NextRace ==
  \E c \in RaceClients :
    \/ \E name \in AreaNames, type \in GeographicAreaTypes,
          parentId \in RaceParents : RaceCall(c, name, type, parentId)
    \/ RaceSelect(c)
    \/ RaceInsert(c)
    \/ RaceCommit(c)
    \/ RaceRollback(c)

SpecRace == InitRace /\ [][NextRace]_vars

\* ------------------------------------------------------------- SpecFrame
\* one call of processRegionFile against a store that earlier loads of both
\* regions have filled
FrameAreas ==
  { [id |-> 1, name |-> regionLinks[1], type |-> "region", parent |-> NULL],
    [id |-> 2, name |-> <<"B">>, type |-> "country", parent |-> 1],
    [id |-> 3, name |-> <<"Y">>, type |-> "admin_1", parent |-> 2],
    [id |-> 4, name |-> regionLinks[2], type |-> "region", parent |-> NULL],
    [id |-> 5, name |-> <<"A">>, type |-> "country", parent |-> 4],
    [id |-> 6, name |-> <<"X">>, type |-> "admin_1", parent |-> 5] }

FrameRows ==
  { Stored([week |-> w, regionId |-> 1, countryId |-> 2, admin1Id |-> 3], 1) :
      w \in {1, 3} }
  \cup
  { Stored([week |-> w, regionId |-> 4, countryId |-> 5, admin1Id |-> 6], 1) :
      w \in {1, 3} }

InitFrame ==
  /\ geo = FrameAreas /\ snapGeo = {} /\ seq = 6
  /\ agg \in SUBSET FrameRows /\ snapAgg = {} /\ txOpen = FALSE
  /\ jobs = <<>>
  /\ run = 0 /\ pc = "caller" /\ idx = 0
  /\ InitLocals /\ sheet = <<>>
  /\ visited = <<>> /\ prev = NoPrev
  /\ faults = MaxFaults - 1 /\ loads = 0

\* processRegionFile(regionLinks[k], filePath, f), once
CallOnce(k, f) ==
  /\ pc = "caller" /\ loads = 0
  /\ loads' = loads + 1
  /\ idx' = k /\ filename' = f
  /\ called' = TRUE
  /\ preGeo' = geo /\ preAgg' = agg /\ preJobs' = Len(jobs)
  /\ pc' = "connect"
  /\ UNCHANGED << mig, tz, ops, clients, batchSize, dbVars, jobs, run, rowVars,
                  loadVars, thrown, visited, hfc, detected, prev, faults >>

NextFrame ==
  \/ \E k \in 1..Len(regionLinks) : CallOnce(k, RepeatFile)
  \/ \E fault \in BOOLEAN, n \in 0..MaxRows : ParseFile(fault, n)
  \/ \E fault \in 0..2, row \in RawRows : ProcessRow(fault, row, FALSE)
  \/ LoadStep

SpecFrame == InitFrame /\ [][NextFrame]_vars

\* ------------------------------------------------------------- SpecDates
\* parseDate at the level of the characters of the text and of the time
\* zone of the process.  A text is a sequence of characters, a month name
\* being one element.  A Date is a number of hours since 1970-01-01T00:00Z.
MonthNames == <<"Jan", "Feb", "Mar", "Apr", "May", "Jun",
                "Jul", "Aug", "Sep", "Oct", "Nov", "Dec">>

\* hours east of UTC of the zones the script may run in
TimeZones == {-5, 0, 2}

\* days from 1970-01-01 to the day d of month m of year y
DaysFromCivil(y, m, d) ==
  LET yy == IF m <= 2 THEN y - 1 ELSE y
      era == yy \div 400
      yoe == yy - era * 400
      mp == (m + 9) % 12
      doy == (153 * mp + 2) \div 5 + d - 1
      doe == yoe * 365 + yoe \div 4 - yoe \div 100 + doy
  IN era * 146097 + doe - 719468

\* the [year, month, day] of the day z days after 1970-01-01
CivilFromDays(z) ==
  LET zz == z + 719468
      era == zz \div 146097
      doe == zz - era * 146097
      yoe == (doe - doe \div 1460 + doe \div 36524 - doe \div 146096) \div 365
      doy == doe - (365 * yoe + yoe \div 4 - yoe \div 100)
      mp == (5 * doy + 2) \div 153
      d == doy - (153 * mp + 2) \div 5 + 1
      m == IF mp < 10 THEN mp + 3 ELSE mp - 9
      y == yoe + era * 400 + (IF m <= 2 THEN 1 ELSE 0)
  IN [year |-> y, month |-> m, day |-> d]

\* the fields of s between occurrences of sep
RECURSIVE SplitOn(_, _)
SplitOn(s, sep) ==
  IF s = <<>> THEN << <<>> >>
  ELSE LET rest == SplitOn(Tail(s), sep)
       IN IF Head(s) = sep THEN << <<>> >> \o rest
          ELSE << << Head(s) >> \o Head(rest) >> \o Tail(rest)

AllDigits(s) == s # <<>> /\ \A k \in 1..Len(s) : IsDigit(s[k])
DecimalValue(s) == LeadingDigits(s, 0, 0).value

NoFields == [ok |-> FALSE, year |-> 0, month |-> 0, day |-> 0]

\* YYYY-MM-DD
FieldsISO(s) ==
  LET p == SplitOn(s, "-")
  IN IF /\ Len(p) = 3 /\ \A k \in 1..3 : AllDigits(p[k])
        /\ Len(p[1]) = 4 /\ Len(p[2]) = 2 /\ Len(p[3]) = 2
       THEN [ok |-> TRUE, year |-> DecimalValue(p[1]),
             month |-> DecimalValue(p[2]), day |-> DecimalValue(p[3])]
       ELSE NoFields

\* /^(\d{1,2})\/(\d{1,2})\/(\d{4})$/
FieldsSlashed(s) ==
  LET p == SplitOn(s, "/")
  IN IF /\ Len(p) = 3 /\ \A k \in 1..3 : AllDigits(p[k])
        /\ Len(p[1]) \in 1..2 /\ Len(p[2]) \in 1..2 /\ Len(p[3]) = 4
       THEN [ok |-> TRUE, year |-> DecimalValue(p[3]),
             month |-> DecimalValue(p[1]), day |-> DecimalValue(p[2])]
       ELSE NoFields

\* /^(\w+)\s+(\d{1,2})\s+(\d{4})$/ with the name of a month
FieldsMonthName(s) ==
  LET p == SplitOn(s, " ")
  IN IF /\ Len(p) = 3 /\ Len(p[1]) = 1
        /\ \E m \in 1..12 : MonthNames[m] = p[1][1]
        /\ AllDigits(p[2]) /\ Len(p[2]) \in 1..2
        /\ AllDigits(p[3]) /\ Len(p[3]) = 4
       THEN [ok |-> TRUE, year |-> DecimalValue(p[3]),
             month |-> CHOOSE m \in 1..12 : MonthNames[m] = p[1][1],
             day |-> DecimalValue(p[2])]
       ELSE NoFields

ValidDay(f) == f.ok /\ f.month \in 1..12 /\ f.day \in 1..31

\* new Date(text) in a process of time zone zone: a date-only ISO text is
\* midnight UTC of the day, a text of another form midnight local time
NewDate(text, zone) ==
  LET iso == FieldsISO(text)
      slashed == FieldsSlashed(text)
      named == FieldsMonthName(text)
  IN IF ValidDay(iso)
       THEN Number(24 * DaysFromCivil(iso.year, iso.month, iso.day))
     ELSE IF ValidDay(slashed)
       THEN Number(24 * DaysFromCivil(slashed.year, slashed.month, slashed.day)
                   - zone)
     ELSE IF ValidDay(named)
       THEN Number(24 * DaysFromCivil(named.year, named.month, named.day)
                   - zone)
     ELSE NaN

\* parseDate(dateStr) in a process of time zone zone: [err, week]
parseDateIn(dateStr, zone) ==
  LET trimmed == Trim(dateStr)
      parsed == NewDate(trimmed, zone)
      matched == FieldsSlashed(trimmed).ok \/ FieldsMonthName(trimmed).ok
      date == NewDate(trimmed, zone)
  IN IF ~parsed.nan THEN [err |-> NoError, week |-> parsed.value]
     ELSE IF matched /\ ~date.nan THEN [err |-> NoError, week |-> date.value]
     ELSE [err |-> "Unable to parse date", week |-> NULL]

\* the calendar date of a Date in the zone of the process (getFullYear,
\* getMonth, getDate), which is also the date the driver sends to the store
CalendarDate(week, zone) == CivilFromDays((week + zone) \div 24)

Pad2(n) == IF n < 10 THEN <<"0">> \o DigitsOf(n) ELSE DigitsOf(n)

\* the three forms of a day named by the header of the script
FormatSlashed(y, m, d) ==
  DigitsOf(m) \o <<"/">> \o DigitsOf(d) \o <<"/">> \o DigitsOf(y)
FormatMonthName(y, m, d) ==
  << MonthNames[m], " " >> \o DigitsOf(d) \o <<" ">> \o DigitsOf(y)
FormatISO(y, m, d) ==
  DigitsOf(y) \o <<"-">> \o Pad2(m) \o <<"-">> \o Pad2(d)

FormsOf(day) ==
  {FormatSlashed(day.year, day.month, day.day),
   FormatMonthName(day.year, day.month, day.day),
   FormatISO(day.year, day.month, day.day)}

\* Saturdays of weekly files
DateDays == {[year |-> 2022, month |-> 11, day |-> 19],
             [year |-> 2022, month |-> 11, day |-> 26],
             [year |-> 2023, month |-> 1, day |-> 7]}

DateTexts == UNION {FormsOf(day) : day \in DateDays}

InitDates ==
  /\ InitStore
  /\ jobs = <<>>
  /\ run = 0 /\ pc = "dates" /\ idx = 0
  /\ filename = Undefined /\ nrows = 2 /\ weeksRead = <<>>
  /\ status = Undefined /\ errorMessage = Undefined /\ thrown = NoError
  /\ regionId = NULL /\ i = 1
  /\ countryCache = <<>> /\ admin1Cache = <<>> /\ aggregateData = <<>>
  /\ detected = FALSE /\ called = FALSE
  /\ hfc = NoCall /\ preGeo = {} /\ preAgg = {} /\ preJobs = 0
  /\ batchSize = BATCH_SIZE /\ clients = <<>>
  /\ mig = NoMigrator
  /\ tz \in TimeZones /\ ops = <<>>
  /\ sheet \in { << [week |-> s], [week |-> t] >> : s, t \in DateTexts }
  /\ visited = <<>> /\ prev = NoPrev
  /\ faults = 0 /\ loads = 0

\* const week = parseDate(weekStr), for the next row of the sheet
ParseWeek ==
  /\ pc = "dates"
  /\ LET r == parseDateIn(sheet[i].week, tz)
     IN /\ thrown' = r.err
        /\ aggregateData' = IF r.err = NoError
                              THEN Append(aggregateData, [week |-> r.week])
                              ELSE aggregateData
        /\ IF r.err = NoError /\ i < nrows THEN pc' = "dates" /\ i' = i + 1
           ELSE pc' = "dated" /\ i' = i
  /\ UNCHANGED << mig, tz, ops, clients, batchSize, dbVars, jobs, run, idx, filename,
                  sheet, nrows, weeksRead, status, errorMessage, regionId,
                  countryCache, admin1Cache, histVars, faults, loads >>

NextDates == ParseWeek

SpecDates == InitDates /\ [][NextDates]_vars

\* ------------------------------------------------------------- SpecEvents
\* the event vocabulary of packages/api/types/acled/acled.go and what the
\* row loop makes of a row's event cells.  A cell text is a sequence whose
\* elements are a whole word of the vocabulary or a blank.
EventTypes ==
  {"Battles", "Protests", "Riots", "Explosions/Remote violence",
   "Violence against civilians", "Strategic developments"}

GetBattlesSubEventTypes ==
  {"Government regains territory", "Non-state actor overtakes territory",
   "Armed clash"}
GetProtestsSubEventTypes ==
  {"Excessive force against protesters", "Protest with intervention",
   "Peaceful protest"}
\* the list of Riots with a constant of another event type pasted into it
GetRiotsSubEventTypes_WithAttack ==
  {"Violent demonstration", "Mob violence", "Attack"}

GetRiotsSubEventTypes == {"Violent demonstration", "Mob violence"}

GetExplosionsRemoteViolenceSubEventTypes ==
  {"Chemical weapon", "Air/drone strike", "Suicide bomb",
   "Shelling/artillery/missile attack", "Remote explosive/landmine/IED",
   "Grenade"}
GetViolenceAgainstCiviliansSubEventTypes ==
  {"Sexual violence", "Attack", "Abduction/forced disappearance"}
GetStrategicDevelopmentsSubEventTypes ==
  {"Agreement", "Arrests", "Change to group/activity",
   "Disrupted weapons use", "Headquarters or base established",
   "Looting/property destruction", "Non-violent transfer of territory",
   "Other"}

SubEventTypesOf(eventType) ==
  CASE eventType = "Battles" -> GetBattlesSubEventTypes
    [] eventType = "Protests" -> GetProtestsSubEventTypes
    [] eventType = "Riots" -> GetRiotsSubEventTypes
    [] eventType = "Explosions/Remote violence" ->
         GetExplosionsRemoteViolenceSubEventTypes
    [] eventType = "Violence against civilians" ->
         GetViolenceAgainstCiviliansSubEventTypes
    [] eventType = "Strategic developments" ->
         GetStrategicDevelopmentsSubEventTypes

\* the declared SubEventType constants
SubEventTypes ==
  {"Government regains territory", "Non-state actor overtakes territory",
   "Armed clash",
   "Excessive force against protesters", "Protest with intervention",
   "Peaceful protest",
   "Violent demonstration", "Mob violence",
   "Chemical weapon", "Air/drone strike", "Suicide bomb",
   "Shelling/artillery/missile attack", "Remote explosive/landmine/IED",
   "Grenade",
   "Sexual violence", "Attack", "Abduction/forced disappearance",
   "Agreement", "Arrests", "Change to group/activity",
   "Disrupted weapons use", "Headquarters or base established",
   "Looting/property destruction", "Non-violent transfer of territory",
   "Other"}

\* rows of a sheet with an 'Event Type' cell and a sub-event cell (absent,
\* or one of the vocabulary); the other cells are fixed
EventRows ==
  [week : {"2022-11-19"}, country : { <<>> }, admin1 : { <<>> },
   eventType : { <<e>> : e \in EventTypes } \cup
               { <<e, " ">> : e \in EventTypes },
   subEventType : { <<>> } \cup { <<s>> : s \in SubEventTypes }]

InitEvents ==
  /\ geo = {[id |-> 1, name |-> regionLinks[1], type |-> "region",
             parent |-> NULL]}
  /\ snapGeo = geo /\ seq = 1
  /\ agg = {} /\ snapAgg = {} /\ txOpen = TRUE
  /\ jobs = <<>> /\ run = 1 /\ idx = 1 /\ pc = "events"
  /\ filename = RepeatFile /\ weeksRead = <<>>
  /\ sheet \in { << row >> : row \in EventRows } /\ nrows = 1
  /\ status = "successful" /\ errorMessage = Undefined /\ thrown = NoError
  /\ regionId = 1 /\ i = 1
  /\ countryCache = <<>> /\ admin1Cache = <<>> /\ aggregateData = <<>>
  /\ batchSize = BATCH_SIZE /\ clients = <<>>
  /\ mig = NoMigrator
  /\ tz = 0 /\ ops = << "connect", "BEGIN" >>
  /\ visited = << regionLinks[1] >> /\ hfc = NoCall
  /\ detected = TRUE /\ called = TRUE
  /\ preGeo = geo /\ preAgg = {} /\ preJobs = 0 /\ prev = NoPrev
  /\ faults = 0 /\ loads = 1

\* one iteration of the row loop on the row of the sheet: the record pushed
\* carries the trimmed event type; no cell of a sub-event type is read
NormalizeEvents ==
  /\ pc = "events"
  /\ LET row == sheet[1]
         r == ProcessRowResult(geo, seq, countryCache, admin1Cache, regionId,
                               row, 0)
         eventType == Trim(row.eventType)
     IN /\ weeksRead' = Append(weeksRead, row.week)
        /\ geo' = r.geo /\ seq' = r.seq
        /\ thrown' = r.err
        /\ aggregateData' =
             IF r.err # NoError \/ r.skip THEN aggregateData
             ELSE Append(aggregateData, r.rec @@ [eventType |-> eventType])
        /\ pc' = "normalized"
  /\ UNCHANGED << mig, tz, ops, clients, batchSize, agg, txOpen, snapGeo, snapAgg, jobs, run,
                  idx, filename, sheet, nrows, status, errorMessage, regionId, i,
                  countryCache, admin1Cache, histVars, faults, loads >>

NextEvents == NormalizeEvents

SpecEvents == InitEvents /\ [][NextEvents]_vars

\* ------------------------------------------------------------- properties
LastJob == jobs[Len(jobs)]
Unparseable(w) == w # "" /\ w \notin DOMAIN DateValue
StorePreserved == CommittedGeo = preGeo /\ CommittedAgg = preAgg

\* C1: when any step of a region's load fails, the committed contents of
\* acled_weekly_agg and geographic_area after processRegionFile are what
\* they were before the call, and no transaction is left open
C1_FailedLoadLeavesStore ==
  (/\ pc \in {"ledger", "endloop"}
   /\ called
   /\ (status = "failed" \/ thrown = "connect_failed"))
    => StorePreserved /\ ~txOpen

\* a load that failed on its second INSERT, after areas were created and
\* the first chunk was inserted
C1_Witness ==
  /\ pc = "ledger" /\ status = "failed"
  /\ errorMessage = "unique_violation"
  /\ i = BATCH_SIZE /\ Len(aggregateData) > BATCH_SIZE
  /\ seq > Cardinality(CommittedGeo)

C4_AcquisitionFailureRecorded ==
  (pc = "endloop" /\ thrown \in {"navigation_failed", "download_failed"})
    => /\ Len(jobs) = preJobs + 1
       /\ LastJob.source = Region /\ LastJob.status = "failed"

\* C5: the loop visits every source once, in list order, whatever fails,
\* and then reaches the end of main's try block; only a failure before the
\* loop or in the final clean-up makes the run fatal
IsPrefix(p, q) == Len(p) <= Len(q) /\ p = SubSeq(q, 1, Len(p))

C5_EverySourceVisited ==
  /\ IsPrefix(visited, regionLinks)
  /\ pc \in {"teardown", "completed"} => visited = regionLinks
  /\ pc = "fatal" => visited \in {<<>>, regionLinks}
  /\ pc = "goto" => Len(visited) = idx - 1
  /\ pc \in {"detect", "download", "connect", "parse", "begin", "region",
             "rows", "insert", "retire", "commit", "rollback", "ledger",
             "endloop"} => Len(visited) = idx

\* a run whose first source failed without a job and whose second source
\* was loaded
C5_Witness ==
  /\ pc = "teardown" /\ run = 1 /\ faults > 0
  /\ Len(jobs) = 1 /\ jobs[1].source = regionLinks[2]
  /\ jobs[1].status = "successful"

\* C6: when a load has failed with error E, the error processRegionFile
\* surfaces is E, also when the data_job insert fails
C6_LoadErrorSurfaces ==
  (pc = "endloop" /\ status = "failed") => thrown = errorMessage

\* C8: when the most recent successful job of the source carries the
\* acquired filename, the iteration ends at once: no processRegionFile
\* call, no transaction, both tables unchanged
SameFingerprint ==
  \E k \in 1..Len(jobs) :
    /\ jobs[k].source = Region /\ jobs[k].status = "successful"
    /\ jobs[k].type = "acled_weekly_agg"
    /\ jobs[k].meta.filename = filename
    /\ \A j \in (k + 1)..Len(jobs) :
         ~(jobs[j].source = Region /\ jobs[j].status = "successful")

C8_UnchangedSourceSkipped ==
  [][(pc = "detect" /\ SameFingerprint)
       => /\ pc' = "endloop"
          /\ ~txOpen' /\ geo' = geo /\ agg' = agg
          /\ loads' = loads /\ jobs' = jobs]_vars

\* a source with stored rows skipped because its filename is unchanged
C8_Witness ==
  /\ pc = "endloop" /\ hfc.called /\ ~hfc.result
  /\ thrown = NoError /\ ~called
  /\ preAgg # {} /\ StorePreserved

\* C10: geographic_area, committed or inside a transaction, holds at most
\* one row per (trimmed name, type, parent), and resolving the key of any
\* of its rows, however padded, returns that row's id and creates nothing
UniqueAreas(g) ==
  \A a, b \in g :
    (a.name = b.name /\ a.type = b.type /\ a.parent = b.parent) => a = b

Paddings(n) == {n, n \o <<" ">>, <<" ">> \o n}

C10_AreasUnique ==
  /\ UniqueAreas(CommittedGeo) /\ UniqueAreas(geo)
  /\ \A a \in geo : a.name = Trim(a.name)
  /\ \A a \in geo : \A n \in Paddings(a.name) :
       LET r == getOrCreateGeographicArea(geo, seq, n, a.type, a.parent, FALSE)
       IN r.err = NoError /\ r.id = a.id /\ r.geo = geo /\ r.seq = seq

\* a load that resolved its region, country and admin-1 from rows that
\* earlier loads had committed
C10_Witness ==
  /\ pc = "insert" /\ txOpen /\ loads = 2
  /\ geo = snapGeo /\ Cardinality(snapGeo) = 3
  /\ aggregateData # <<>>

\* ------------------------------------------------------------- properties of SpecChange
IsSuccessfulJob(k, region) ==
  /\ jobs[k].type = "acled_weekly_agg"
  /\ jobs[k].source = region
  /\ jobs[k].status = "successful"

\* C7: hasFilenameChanged(source, f) is false exactly when the most recent
\* successful acled_weekly_agg job of the source has meta.filename = f
C7_ChangedUnlessSameFilename ==
  hfc.called =>
    (~hfc.result <=>
       \E k \in 1..Len(jobs) :
         /\ IsSuccessfulJob(k, hfc.region)
         /\ \A j \in (k + 1)..Len(jobs) : ~IsSuccessfulJob(j, hfc.region)
         /\ jobs[k].meta.filename = hfc.filename)

\* the most recent successful job has no filename in its metadata, after
\* an older successful job that carried the filename asked about
C7_Witness ==
  /\ hfc.called /\ hfc.result
  /\ Len(jobs) = 2
  /\ IsSuccessfulJob(1, hfc.region) /\ jobs[1].meta.filename = hfc.filename
  /\ IsSuccessfulJob(2, hfc.region) /\ jobs[2].meta.filename = Undefined

\* ------------------------------------------------------------- properties of SpecRepeat
\* C9: a second call with the same region and the same file leaves both
\* tables as the first call left them (the first call having met no
\* refused awaited call)
C9_SecondLoadChangesNothing ==
  (pc = "endloop" /\ prev.valid /\ prev.clean)
    => CommittedGeo = prev.geo /\ CommittedAgg = prev.agg

\* the first call committed rows and retired older ones; the second met
\* the primary key of the rows the first had inserted
C9_Witness ==
  /\ pc = "endloop" /\ prev.valid /\ prev.clean
  /\ prev.agg # {} /\ Len(sheet) = 2
  /\ status = "failed" /\ errorMessage = "unique_violation"
  /\ Len(jobs) >= 2
  /\ jobs[Len(jobs) - 1].status = "successful" /\ LastJob.status = "failed"

\* ------------------------------------------------------------- the resolver
\* C11: resolving the (name, type) of a stored area under another parent
\* succeeds and creates a second row with an id of its own
C11_TwoParentsTwoRows ==
  \A a \in geo : \A p \in geo :
    (p.id # a.parent /\ p.type = "region" /\ a.type = "country")
      => LET r == getOrCreateGeographicArea(geo, seq, a.name, a.type, p.id, FALSE)
         IN /\ r.err = NoError
            /\ r.id \notin {b.id : b \in geo}
            /\ Cardinality(r.geo) = Cardinality(geo) + 1

\* C12: with type region and a parent id, or with type country or admin_1
\* and no parent id, the resolver fails with InvalidHierarchy and creates
\* nothing
InvalidHierarchy(type, parentId) ==
  \/ type = "region" /\ parentId # NULL
  \/ type \in {"country", "admin_1"} /\ parentId = NULL

C12_InvalidHierarchyRefused ==
  \A name \in AreaNames, type \in GeographicAreaTypes, parentId \in ParentIds :
    InvalidHierarchy(type, parentId)
      => LET r == getOrCreateGeographicArea(geo, seq, name, type, parentId, FALSE)
         IN r.err = "InvalidHierarchy" /\ r.geo = geo

\* ------------------------------------------------------------- the retire step
\* C13: after a load of a region has committed, no acled_weekly_agg row of
\* the region that existed before the load remains
C13_OldRowsGone ==
  (pc = "ledger" /\ status = "successful")
    => \A r \in CommittedAgg : r.regionId = regionId => r \notin preAgg

\* the oldest week among the newest n weeks of the records in data; NULL
\* when there is none
OldestOfNewestWeeks(data, n) ==
  LET weeks == {data[k].week : k \in 1..Len(data)}
      newest == {w \in weeks : Cardinality({v \in weeks : v > w}) < n}
  IN IF newest = {} THEN NULL
     ELSE CHOOSE w \in newest : \A v \in newest : w <= v

\* C14: the retire step deletes exactly the rows of the region whose week
\* is older than the oldest of the newest N weeks of the rows the load has
\* just inserted, N being the number of rows of the batch
C14_RetireByInsertedWeeks ==
  [][(pc = "retire" /\ pc' = "commit")
       => LET m == OldestOfNewestWeeks(aggregateData, nrows)
          IN agg' = {r \in agg : ~(/\ r.regionId = regionId
                                   /\ m # NULL /\ r.week < m)}]_vars

\* ------------------------------------------------------------- the hierarchy
AreaOf(g, id) == CHOOSE a \in g : a.id = id
HasArea(g, id) == \E a \in g : a.id = id

WellFormedAreas(g) ==
  \A a \in g :
    /\ a.type = "region" => a.parent = NULL
    /\ a.type = "country"
         => HasArea(g, a.parent) /\ AreaOf(g, a.parent).type = "region"
    /\ a.type = "admin_1"
         => HasArea(g, a.parent) /\ AreaOf(g, a.parent).type = "country"

WellFormedAggregates(g, t) ==
  \A r \in t :
    /\ HasArea(g, r.regionId) /\ AreaOf(g, r.regionId).type = "region"
    /\ r.admin1Id # NULL
         => /\ r.countryId # NULL
            /\ HasArea(g, r.admin1Id)
            /\ AreaOf(g, r.admin1Id).type = "admin_1"
            /\ AreaOf(g, r.admin1Id).parent = r.countryId
    /\ r.countryId # NULL
         => /\ HasArea(g, r.countryId)
            /\ AreaOf(g, r.countryId).type = "country"
            /\ AreaOf(g, r.countryId).parent = r.regionId

\* C15: in every committed state (and inside every transaction) a region
\* has no parent, a country has a region for parent, an admin-1 area has a
\* country for parent; an aggregate row with an admin-1 has a country, the
\* admin-1's parent is that country and the country's parent is the row's
\* region
C15_HierarchyWellFormed ==
  /\ WellFormedAreas(CommittedGeo) /\ WellFormedAreas(geo)
  /\ WellFormedAggregates(CommittedGeo, CommittedAgg)
  /\ WellFormedAggregates(geo, agg)

\* committed: two regions, a country and an admin-1 area under the first,
\* and aggregate rows that refer to them
C15_Witness ==
  /\ ~txOpen /\ Cardinality(geo) = 4 /\ agg # {}
  /\ Cardinality({a \in geo : a.type = "region"}) = 2
  /\ \E r \in agg : r.admin1Id # NULL

\* C16: a batch with a row of parsable week and no country name loads
\* successfully, the row being stored with its region and neither country
\* nor admin-1
C16_RegionalOnlyRowStored ==
  (/\ pc = "ledger"
   /\ Len(weeksRead) = nrows
   /\ \A k \in 1..nrows : ~Unparseable(weeksRead[k])
   /\ \E k \in 1..Len(aggregateData) : aggregateData[k].countryId = NULL
   /\ errorMessage \in {Undefined, "not_null_violation"})
    => /\ status = "successful"
       /\ \A k \in 1..Len(aggregateData) :
            aggregateData[k].countryId = NULL
              => /\ aggregateData[k].admin1Id = NULL
                 /\ \E r \in preAgg \cup agg : KeyOf(r) = aggregateData[k]

\* ------------------------------------------------------------- the ledger
\* C17: a data_job row written for a load is 'successful' exactly when the
\* load's transaction committed: the finally block is entered with status
\* 'successful' only by the COMMIT that succeeded, which keeps the work of
\* the transaction; every other entry (file, row, insert, retire, COMMIT or
\* ROLLBACK error) has status 'failed' and the store as before the call; the
\* row appended carries that status
C17_SuccessfulIffCommitted ==
  [][/\ (pc = "commit" /\ pc' = "ledger")
          => /\ status' = "successful" /\ txOpen /\ ~txOpen'
             /\ geo' = geo /\ agg' = agg
     /\ (pc # "commit" /\ pc # "ledger" /\ pc' = "ledger")
          => /\ status' = "failed" /\ ~txOpen'
             /\ geo' = preGeo /\ agg' = preAgg
     /\ (pc = "commit" /\ pc' # "ledger") => pc' = "rollback"
     /\ (jobs' # jobs)
          => /\ pc = "ledger" /\ Len(jobs') = Len(jobs) + 1
             /\ jobs'[Len(jobs')].status = status
             /\ SubSeq(jobs', 1, Len(jobs)) = jobs]_vars

\* a load whose chunks were all inserted, that failed at the retire step
\* or at COMMIT, and whose job row says 'failed'
C17_Witness ==
  /\ pc = "endloop" /\ Len(jobs) = preJobs + 1
  /\ LastJob.status = "failed" /\ LastJob.meta.error = "query_failed"
  /\ Len(weeksRead) = nrows
  /\ aggregateData # <<>> /\ i >= Len(aggregateData)
  /\ Len(aggregateData) = Cardinality({k \in 1..nrows : weeksRead[k] # ""})
  /\ StorePreserved

\* C18: every 'successful' data_job row carries the name of the loaded
\* file in its metadata, and every 'failed' row carries the message of the
\* error (and the file name)
C18_JobMetadata ==
  \A k \in 1..Len(jobs) :
    /\ jobs[k].meta.filename \in Filenames
    /\ jobs[k].status \in {"successful", "failed"}
    /\ jobs[k].status = "failed" => jobs[k].meta.error # Undefined
    /\ jobs[k].status = "successful" => jobs[k].meta.error = Undefined

\* a ledger with a successful job and a failed one
C18_Witness ==
  /\ Len(jobs) = 2
  /\ jobs[1].status = "successful" /\ jobs[1].meta.filename = "file_v1.xlsx"
  /\ jobs[2].status = "failed" /\ jobs[2].meta.filename = "file_v2.xlsx"
  /\ jobs[2].meta.error = "Unable to parse date"

\* ------------------------------------------------------------- the chunk loop
RECURSIVE ConcatChunks(_, _)
ConcatChunks(data, from) ==
  IF from >= Len(data) THEN <<>>
  ELSE Chunk(data, from) \o ConcatChunks(data, from + batchSize)

\* C19: for every batch and chunk size the chunks are consecutive slices
\* whose concatenation is the batch; the loop has inserted, after each
\* chunk, what one INSERT of the records up to there would have, it ends
\* with the rows one unchunked INSERT would give, and it fails only when
\* the unchunked INSERT would
C19_ChunkingChangesNothing ==
  LET whole == InsertAggregates(snapAgg, aggregateData)
      sofar == InsertAggregates(snapAgg, SubSeq(aggregateData, 1, i))
  IN /\ ConcatChunks(aggregateData, 0) = aggregateData
     /\ pc = "insert"
          => /\ i < Len(aggregateData) /\ i % batchSize = 0
             /\ sofar.err = NoError /\ agg = sofar.agg
     /\ pc = "retire"
          => /\ whole.err = NoError /\ agg = whole.agg
             /\ Cardinality(agg) = Len(aggregateData)
     /\ pc = "rollback" => whole.err # NoError

\* three records inserted as a chunk of two and a chunk of one
C19_Witness ==
  /\ pc = "retire" /\ batchSize = 2 /\ i = 4
  /\ Len(aggregateData) = 3 /\ Cardinality(agg) = 3

\* ------------------------------------------------------------- the counts
IsCount(cell) ==
  /\ ~Falsy(cell)
  /\ LET text == IF cell.kind = "number" THEN NumberToString(cell.num)
                 ELSE cell.text
     IN text # <<>> /\ \A k \in 1..Len(text) : IsDigit(text[k])

\* C20: eventCount, fatalities and populationExposure of every record
\* handed to the insert step are non-negative integers, zero when the
\* field of the raw row is absent or is not a count
C20_CountsNonNegative ==
  pc = "counted" =>
    LET row == sheet[1]
        rec == aggregateData[1]
        Good(cell, n) == /\ ~n.nan /\ n.value >= 0
                         /\ ~IsCount(cell) => n.value = 0
    IN /\ Good(row.Events, rec.eventCount)
       /\ Good(row.Fatalities, rec.fatalities)
       /\ Good(row.PopulationExposure, rec.popExposure)

\* positions of processRegionFile between BEGIN and the end of the transaction
InTransaction == {"region", "rows", "insert", "retire", "commit", "rollback"}

\* C21: sources are processed strictly one at a time: a transaction is open
\* only between the BEGIN and the COMMIT or ROLLBACK of the source at hand,
\* a load begins with no transaction open, and main moves to another source
\* only from the end of an iteration, with no transaction open and the
\* data_job insert of the source (if its load was entered) already issued
C21_OneSourceAtATime ==
  [][ /\ (txOpen => pc \in InTransaction)
      /\ (pc = "begin" => ~txOpen)
      /\ (idx' # idx
            => /\ pc \in {"idle", "completed", "fatal", "endloop"}
               /\ ~txOpen /\ ~txOpen'
               /\ (pc = "endloop" /\ called /\ thrown # "connect_failed")
                    => (Len(jobs) = preJobs + 1 \/ thrown = "ledger_failed")) ]_vars

\* the second source's transaction is open in a run whose first source's
\* load has already written its data_job row
C21_Witness ==
  /\ run = 1 /\ idx = 2 /\ pc = "rows" /\ txOpen
  /\ Len(jobs) = 1 /\ jobs[1].source = regionLinks[1]

SameKey(a, b) == a.name = b.name /\ a.type = b.type /\ a.parent = b.parent

\* C22: when two loads run side by side in transactions of their own and
\* resolve the same (name, type, parent), no interleaving leaves two
\* committed geographic_area rows with that key, and at most one of the two
\* INSERTs succeeds and is committed
C22_RaceLeavesOneArea ==
  /\ UniqueAreas(geo)
  /\ \A c, d \in RaceClients :
       (c # d /\ clients[c].pc = "committed" /\ clients[d].pc = "committed")
         => \A a \in clients[c].inserted, b \in clients[d].inserted :
              ~SameKey(a, b)
  /\ \A c, d \in RaceClients :
       c # d => \A a \in clients[c].own, b \in clients[d].own \cup geo :
                  ~(a.type = b.type /\ a.name = b.name)

\* both loads looked the same key up, neither found it, one inserted it and
\* committed, the other's INSERT was refused by the unique index
C22_Witness ==
  \E c, d \in RaceClients :
    /\ c # d /\ SameKey(clients[c], clients[d])
    /\ clients[c].pc = "committed"
    /\ \E a \in clients[c].inserted : SameKey(a, clients[c]) /\ a \in geo
    /\ clients[d].pc = "failed" /\ clients[d].err = "unique_violation"
    /\ clients[c].calls = 1 /\ clients[d].calls = 1

\* C23: every aggregate record the row loop produces carries a sub-event
\* type that is one of the sub-event types of its event type, and a row
\* whose sub-event type is not one of them is rejected
C23_SubEventTypeOfEventType ==
  pc = "normalized"
    => /\ \A k \in 1..Len(aggregateData) :
            /\ "subEventType" \in DOMAIN aggregateData[k]
            /\ aggregateData[k].subEventType
                 \in SubEventTypesOf(Head(aggregateData[k].eventType))
       /\ (/\ sheet[1].subEventType # <<>>
           /\ Head(sheet[1].subEventType)
                \notin SubEventTypesOf(Head(Trim(sheet[1].eventType))))
            => thrown # NoError

\* C24: the ledger is append-only: every step leaves the data_job rows
\* written so far as they are, in their order, and adds at most one row,
\* which only the finally block of processRegionFile does
C24_LedgerAppendOnly ==
  [][ /\ IsPrefix(jobs, jobs')
      /\ Len(jobs') <= Len(jobs) + 1
      /\ (jobs' # jobs => pc = "ledger" /\ jobs'[Len(jobs')].source = Region) ]_vars

\* a source's second attempt was recorded next to its first: a failed job
\* row of the source is followed by a later row of the same source
C24_Witness ==
  /\ Len(jobs) = 2 /\ pc = "endloop"
  /\ jobs[1].source = jobs[2].source
  /\ jobs[1].status = "failed" /\ jobs[2].status = "successful"

\* two texts are forms of one day
SameDay(s, t) == \E day \in DateDays : s \in FormsOf(day) /\ t \in FormsOf(day)

\* C25: parseDate accepts M/D/YYYY, 'Mon D YYYY' and YYYY-MM-DD, and two
\* texts that are forms of the same day yield the same calendar date
C25_FormsYieldSameDate ==
  pc = "dated"
    => /\ thrown = NoError /\ Len(aggregateData) = Len(sheet)
       /\ SameDay(sheet[1].week, sheet[2].week)
            => CalendarDate(aggregateData[1].week, tz)
                 = CalendarDate(aggregateData[2].week, tz)

\* C26: no cached geographic id outlives its load: the row loop of every
\* load starts with empty caches, an id in a cache is the id of a row the
\* load's transaction sees under the cached name and parent, and in every
\* committed state the region_id, country_id and admin1_id of every
\* acled_weekly_agg row are ids of geographic_area rows
C26_CachedIdsOfThisLoad ==
  /\ (pc = "rows" /\ i = 1) => countryCache = <<>> /\ admin1Cache = <<>>
  /\ pc \in {"rows", "insert", "retire", "commit"}
       => /\ \A n \in DOMAIN countryCache :
               \E a \in geo : /\ a.id = countryCache[n] /\ a.name = n
                              /\ a.type = "country" /\ a.parent = regionId
          /\ \A key \in DOMAIN admin1Cache :
               \E a \in geo : /\ a.id = admin1Cache[key] /\ a.name = key[2]
                              /\ a.type = "admin_1" /\ a.parent = key[1]
  /\ \A r \in CommittedAgg :
       /\ HasArea(CommittedGeo, r.regionId)
       /\ r.countryId # NULL => HasArea(CommittedGeo, r.countryId)
       /\ r.admin1Id # NULL => HasArea(CommittedGeo, r.admin1Id)

\* the load after a rolled-back load that had resolved a country: the ids
\* the first load drew are gone from the store, and the second load has
\* filled caches of its own and stored a row
C26_Witness ==
  /\ loads = 2 /\ pc = "commit" /\ Len(jobs) = 1 /\ jobs[1].status = "failed"
  /\ seq > Cardinality(geo) + 1
  /\ countryCache # <<>> /\ admin1Cache # <<>>
  /\ agg # {}

\* C27: after a successful load every record the load inserted is stored:
\* the retire step deletes no row the same load inserted, also when rows
\* stored before the load have newer weeks than the batch
C27_InsertedRowsKept ==
  (pc = "ledger" /\ status = "successful")
    => \A k \in 1..Len(aggregateData) :
         \E r \in CommittedAgg : KeyOf(r) = aggregateData[k]

\* the latest data_job row of the region, whatever its status; NULL when
\* there is none
LatestJobOf(region) ==
  LET hits == {k \in 1..Len(jobs) : jobs[k].source = region}
  IN IF hits = {} THEN NULL ELSE CHOOSE k \in hits : \A h \in hits : h <= k

\* the region's most recent successful job carries the file name f
LoadedAlready(region, f) ==
  \E k \in 1..Len(jobs) :
    /\ IsSuccessfulJob(k, region)
    /\ \A j \in (k + 1)..Len(jobs) : ~IsSuccessfulJob(j, region)
    /\ jobs[k].meta.filename = f

\* C28: a failed attempt never suppresses a later load: when the latest job
\* of the source is 'failed' with the file name acquired now, and the
\* source's most recent successful job does not carry that name, the change
\* check (unless its query is refused) sends the cycle on to the download,
\* and the download (unless it fails) to processRegionFile
C28_FailedAttemptRetried ==
  [][ /\ (/\ pc = "detect" /\ thrown' # "query_failed"
          /\ LatestJobOf(Region) # NULL
          /\ jobs[LatestJobOf(Region)].status = "failed"
          /\ jobs[LatestJobOf(Region)].meta.filename = filename
          /\ ~LoadedAlready(Region, filename))
           => (pc' = "download" /\ detected')
      /\ (pc = "download" /\ thrown' # "download_failed")
           => (pc' = "connect" /\ called') ]_vars

\* the second cycle has acquired the file of the source's failed attempt of
\* the first cycle and is loading it again
C28_Witness ==
  /\ run = 2 /\ pc = "connect" /\ called /\ loads = 2
  /\ Len(jobs) = 1 /\ jobs[1].source = Region
  /\ jobs[1].status = "failed" /\ jobs[1].meta.filename = filename

\* the rows of t whose region is not the region of the load at hand
OtherRows(t) ==
  {r \in t : \A a \in geo :
               (a.type = "region" /\ a.name = Region) => r.regionId # a.id}

\* C29: a load of region R, successful or failed, leaves every
\* acled_weekly_agg row whose region is not R as it was: no statement of
\* the load changes the set of such rows, in the transaction's view or in
\* the committed table
C29_OtherRegionsUntouched ==
  [][ pc # "caller"
        => /\ OtherRows(agg') = OtherRows(agg)
           /\ OtherRows(IF txOpen' THEN snapAgg' ELSE agg')
                = OtherRows(CommittedAgg)
           /\ OtherRows(CommittedAgg) = OtherRows(preAgg) ]_vars

\* a committed load of the second region that inserted a row of the region
\* and retired one, next to stored rows of the first region
C29_Witness ==
  /\ pc = "ledger" /\ status = "successful" /\ idx = 2
  /\ \E r \in preAgg \ agg : r.regionId = 4
  /\ \E r \in agg \ preAgg : r.regionId = 4
  /\ \E r \in agg : r.regionId = 1 /\ r.week = 1

\* how many entries of ops are in S
CountOps(S) == Cardinality({k \in 1..Len(ops) : ops[k] \in S})

\* a COMMIT or ROLLBACK issued while the transaction was open: whether the
\* server reports it done or refused, the transaction is over after it
Enders == {"COMMIT", "COMMIT refused", "ROLLBACK", "ROLLBACK refused"}

\* C30: on every path through a load, the transaction that was begun is
\* ended by exactly one COMMIT or ROLLBACK, the connection taken from the
\* pool is released exactly once, and both have happened before the
\* data_job row of the load is written
C30_EndedAndReleasedBeforeJob ==
  /\ CountOps({"BEGIN"}) <= 1 /\ CountOps(Enders) <= CountOps({"BEGIN"})
  /\ txOpen <=> (CountOps({"BEGIN"}) = 1 /\ CountOps(Enders) = 0)
  /\ \A j, k \in 1..Len(ops) :
       /\ (ops[j] = "BEGIN" /\ ops[k] \in Enders) => j < k
       /\ (ops[j] \in Enders \cup {"BEGIN"} /\ ops[k] = "release") => j < k
       /\ (ops[j] = "release" /\ ops[k] = "release") => j = k
  /\ \A k \in 1..Len(ops) :
       ops[k] = "data_job"
         => /\ \E j \in 1..(k - 1) : ops[j] = "release"
            /\ CountOps(Enders) = CountOps({"BEGIN"})
  /\ (pc = "endloop" /\ ops # <<>>)
       => /\ CountOps({"release"}) = 1
          /\ CountOps(Enders) = CountOps({"BEGIN"})

\* a load whose COMMIT was refused: the transaction ended there, the
\* ROLLBACK of the inner catch found none open, then the connection was
\* released and the failed job written
C30_Witness ==
  /\ pc = "endloop"
  /\ ops = << "connect", "BEGIN", "COMMIT refused",
              "ROLLBACK without transaction", "release", "data_job" >>
  /\ LastJob.status = "failed"

\* the COMMIT of the load at hand was done
Committed == \E k \in 1..Len(ops) : ops[k] = "COMMIT"

\* C31: whenever the transaction of a load has committed, a data_job row of
\* the source with status 'successful' and the name of the file has been
\* written by the time main leaves the iteration for the next source
C31_CommittedLoadRecorded ==
  (pc = "endloop" /\ called /\ Committed)
    => /\ Len(jobs) = preJobs + 1
       /\ IsSuccessfulJob(Len(jobs), Region)
       /\ jobs[Len(jobs)].meta.filename = filename

\* ------------------------------------------------------------- migrations
\* The migration runner of packages/api/migrate: the .sql files of its
\* directory, the schema they build, the schema_migrations table, and the
\* command line over them.
\*
\* A script is a sequence of statements.  CREATE makes an object that needs
\* others (a column of an enum type, a foreign key, the table of an index);
\* DROP is DROP ... IF EXISTS, without CASCADE.
Create(name, kind, needs) ==
  [op |-> "CREATE", name |-> name, kind |-> kind, needs |-> needs]
Drop(name) == [op |-> "DROP", name |-> name, kind |-> "any", needs |-> {}]

\* 001_init_db_up.sql
InitDbUp ==
  << Create("geographic_area_type", "type", {}),
     Create("disorder_type", "type", {}),
     Create("event_type", "type", {}),
     Create("geographic_area", "table", {"geographic_area_type"}),
     Create("idx_geographic_area_type_name", "index", {"geographic_area"}),
     Create("idx_geographic_area_parent", "index", {"geographic_area"}),
     Create("acled_weekly_agg", "table",
            {"geographic_area", "disorder_type", "event_type"}),
     Create("idx_acled_weekly_agg_country_week", "index", {"acled_weekly_agg"}),
     Create("idx_acled_weekly_agg_admin1_week", "index", {"acled_weekly_agg"}),
     Create("data_job", "table", {}) >>

\* 001_init_db_down.sql
InitDbDown ==
  << Drop("acled_weekly_agg"),
     Drop("geographic_area"),
     Drop("event_type"),
     Drop("disorder_type"),
     Drop("geographic_area_type") >>

\* later migrations a directory may hold: one table each
TableUp(name) == << Create(name, "table", {}) >>
TableDown(name) == << Drop(name) >>

\* the files a migrations directory is drawn from, in the lexical order in
\* which filepath.Walk visits them; a name is spelled token by token
MigrationFiles ==
  << [name |-> << "0", "0", "0", "_", "zero", "_", "up.sql" >>,
      content |-> TableUp("t0")],
     [name |-> << "0", "0", "1", "_", "init", "_", "db", "_", "down.sql" >>,
      content |-> InitDbDown],
     [name |-> << "0", "0", "1", "_", "init", "_", "db", "_", "up.sql" >>,
      content |-> InitDbUp],
     [name |-> << "0", "0", "2", "_", "more", "_", "down.sql" >>,
      content |-> TableDown("t2")],
     [name |-> << "0", "0", "2", "_", "more", "_", "up.sql" >>,
      content |-> TableUp("t2")],
     [name |-> << "0", "0", "3", "_", "last", "_", "down.sql" >>,
      content |-> TableDown("t3")],
     [name |-> << "0", "0", "3", "_", "last", "_", "up.sql" >>,
      content |-> TableUp("t3")],
     [name |-> << "2", "_", "other", "_", "up.sql" >>,
      content |-> TableUp("t2b")] >>

\* a directory: the positions of its files in MigrationFiles.  The ones
\* tried: none, the repository's own, three whole versions, a version
\* without down file (the middle one, the first), a version with two up
\* files, a file of version 0, versions that start above 1 or leave a gap,
\* a down file alone
Directories ==
  { {}, {2, 3}, {2, 3, 4, 5, 6, 7}, {2, 3, 5, 6, 7}, {3, 4, 5, 6, 7},
    {2, 3, 4, 5, 8}, {5, 8}, {1, 2, 3}, {4, 5, 6, 7}, {2, 3, 6, 7}, {2} }

NoErr == "nil"

\* sort.Slice(m.migrations, Version ascending)
RECURSIVE SortMigrations_Descending(_)
SortMigrations_Descending(ms) ==
  IF ms = {} THEN <<>>
  ELSE LET first == CHOOSE m \in ms : \A o \in ms : m.Version >= o.Version
       IN << first >> \o SortMigrations_Descending(ms \ {first})

RECURSIVE SortMigrations(_)
SortMigrations(ms) ==
  IF ms = {} THEN <<>>
  ELSE LET first == CHOOSE m \in ms : \A o \in ms : m.Version <= o.Version
       IN << first >> \o SortMigrations(ms \ {first})

\* the first loop of LoadMigrations: the walk puts each file's content into
\* upMigrations or downMigrations under its version, a later file of the same
\* version and direction replacing an earlier one
RECURSIVE WalkFiles(_, _, _, _, _)
WalkFiles(k, dir, upMigrations, downMigrations, descriptions) ==
  IF k > Len(MigrationFiles)
    THEN [err |-> NoErr, up |-> upMigrations, down |-> downMigrations,
          descriptions |-> descriptions]
  ELSE IF k \notin dir
    THEN WalkFiles(k + 1, dir, upMigrations, downMigrations, descriptions)
  ELSE
    LET file == MigrationFiles[k]
        parts == SplitOn(file.name, "_")
        lastPart == parts[Len(parts)]
        version == DecimalValue(parts[1])
        isUp == lastPart[Len(lastPart)] = "up.sql"
        isDown == lastPart[Len(lastPart)] = "down.sql"
        description == SubSeq(parts, 2, Len(parts) - 1)
        failed(e) == [err |-> e, up |-> upMigrations, down |-> downMigrations,
                      descriptions |-> descriptions]
    IN IF Len(parts) < 3 THEN failed("invalid migration filename format")
       ELSE IF ~AllDigits(parts[1]) THEN failed("invalid migration version")
       ELSE IF version < 1
         THEN failed("migration version must be greater than 0")
       ELSE IF ~isUp /\ ~isDown
         THEN failed("migration file must end with _up.sql or _down.sql")
       ELSE IF isUp
         THEN WalkFiles(k + 1, dir, (version :> file.content) @@ upMigrations,
                        downMigrations,
                        (version :> description) @@ descriptions)
       ELSE WalkFiles(k + 1, dir, upMigrations,
                      (version :> file.content) @@ downMigrations,
                      (version :> description) @@ descriptions)

\* the second loop of LoadMigrations: one Migration per key of upMigrations,
\* in the order the map hands them out
RECURSIVE CombineMigrations(_, _, _)
CombineMigrations(versions, walked, migrations) ==
  IF versions = {} THEN [err |-> NoErr, migrations |-> migrations]
  ELSE LET version == CHOOSE v \in versions : TRUE
           upSQL == walked.up[version]
           downSQL == IF version \in DOMAIN walked.down
                        THEN walked.down[version] ELSE <<>>
       IN IF upSQL = <<>>
            THEN [err |-> "missing up migration", migrations |-> {}]
          ELSE IF \E m \in migrations : m.Version = version
            THEN [err |-> "duplicate migration version", migrations |-> {}]
          ELSE CombineMigrations(versions \ {version}, walked,
                 migrations \cup
                   {[Version |-> version,
                     Description |-> walked.descriptions[version],
                     UpSQL |-> upSQL, DownSQL |-> downSQL]})

EmptyMap == [v \in {} |-> <<>>]

LoadMigrations(dir) ==
  LET walked == WalkFiles(1, dir, EmptyMap, EmptyMap, EmptyMap)
      combined == CombineMigrations(DOMAIN walked.up, walked, {})
  IN IF walked.err # NoErr THEN [err |-> walked.err, migrations |-> <<>>]
     ELSE IF combined.err # NoErr
       THEN [err |-> combined.err, migrations |-> <<>>]
     ELSE [err |-> NoErr, migrations |-> SortMigrations(combined.migrations)]

\* the objects a database holds are the CREATE statements that made them
ObjectNames(schema) == { o.name : o \in schema }

\* one statement against a schema
ExecStatement(schema, st) ==
  IF st.op = "CREATE"
    THEN IF st.name \in ObjectNames(schema)
           THEN [err |-> "already exists", schema |-> schema]
         ELSE IF ~(st.needs \subseteq ObjectNames(schema))
           THEN [err |-> "does not exist", schema |-> schema]
         ELSE [err |-> NoErr, schema |-> schema \cup {st}]
  ELSE IF st.name \notin ObjectNames(schema)
    THEN [err |-> NoErr, schema |-> schema]
  ELSE IF \E o \in schema : o.kind # "index" /\ st.name \in o.needs
    THEN [err |-> "other objects depend on it", schema |-> schema]
  ELSE [err |-> NoErr,
        schema |-> { o \in schema : o.name # st.name /\ st.name \notin o.needs }]

\* tx.Exec(script): the statements in order, stopping at the first error
RECURSIVE Exec(_, _)
Exec(script, schema) ==
  IF script = <<>> THEN [err |-> NoErr, schema |-> schema]
  ELSE LET one == ExecStatement(schema, Head(script))
       IN IF one.err # NoErr THEN one ELSE Exec(Tail(script), one.schema)

\* the database of the runner: whether schema_migrations exists, the versions
\* it records, and the schema the migrations have built
EmptyDatabase(table) == [table |-> table, recorded |-> {}, schema |-> {}]

MaxVersion(versions) ==
  IF versions = {} THEN 0
  ELSE CHOOSE v \in versions : \A o \in versions : v >= o

\* what a method of the Migrator hands back: the committed database, its
\* error, what became of its transaction, the versions it ran in order, the
\* number of database calls made by then
Returned(d, err, tx, applied, n) ==
  [d |-> d, err |-> err, tx |-> tx, applied |-> applied, n |-> n]

\* CREATE TABLE IF NOT EXISTS schema_migrations, outside any transaction
Initialize(d, refused) ==
  IF refused
    THEN [err |-> "failed to create schema_migrations table", d |-> d]
  ELSE [err |-> NoErr, d |-> [d EXCEPT !.table = TRUE]]

\* SELECT COALESCE(MAX(version), 0) FROM schema_migrations
GetCurrentVersion(d, refused) ==
  IF refused \/ ~d.table
    THEN [err |-> "failed to get current version", version |-> 0]
  ELSE [err |-> NoErr, version |-> MaxVersion(d.recorded)]

\* the loop applying the migration of the target version alone
RECURSIVE UpLoop_OnlyTarget(_, _, _, _, _, _, _)
UpLoop_OnlyTarget(migrations, tx, currentVersion, targetVersion, n, refuse, applied) ==
  IF migrations = <<>>
    THEN [err |-> NoErr, d |-> tx, n |-> n, applied |-> applied]
  ELSE
    LET migration == Head(migrations)
        ran == IF n + 1 = refuse
                 THEN [err |-> "refused", schema |-> tx.schema]
               ELSE Exec(migration.UpSQL, tx.schema)
    IN IF migration.Version <= currentVersion
         THEN UpLoop_OnlyTarget(Tail(migrations), tx, currentVersion,
                                targetVersion, n, refuse, applied)
       ELSE IF migration.Version # targetVersion
         THEN UpLoop_OnlyTarget(Tail(migrations), tx, currentVersion,
                                targetVersion, n, refuse, applied)
       ELSE IF ran.err # NoErr
         THEN [err |-> "failed to apply migration", d |-> tx, n |-> n + 1,
               applied |-> applied]
       ELSE IF n + 2 = refuse \/ migration.Version \in tx.recorded
         THEN [err |-> "failed to record migration", d |-> tx, n |-> n + 2,
               applied |-> applied]
       ELSE UpLoop_OnlyTarget(Tail(migrations),
                   [tx EXCEPT !.schema = ran.schema,
                              !.recorded = @ \cup {migration.Version}],
                   currentVersion, targetVersion, n + 2, refuse,
                   Append(applied, migration.Version))

\* the loop of UpToVersion inside its transaction; n counts the database
\* calls of the command so far, the call numbered refuse is refused
RECURSIVE UpLoop(_, _, _, _, _, _, _)
UpLoop(migrations, tx, currentVersion, targetVersion, n, refuse, applied) ==
  IF migrations = <<>>
    THEN [err |-> NoErr, d |-> tx, n |-> n, applied |-> applied]
  ELSE
    LET migration == Head(migrations)
        ran == IF n + 1 = refuse
                 THEN [err |-> "refused", schema |-> tx.schema]
               ELSE Exec(migration.UpSQL, tx.schema)
    IN IF migration.Version <= currentVersion
         THEN UpLoop(Tail(migrations), tx, currentVersion, targetVersion, n,
                     refuse, applied)
       ELSE IF migration.Version > targetVersion
         THEN [err |-> NoErr, d |-> tx, n |-> n, applied |-> applied]
       ELSE IF ran.err # NoErr
         THEN [err |-> "failed to apply migration", d |-> tx, n |-> n + 1,
               applied |-> applied]
       ELSE IF n + 2 = refuse \/ migration.Version \in tx.recorded
         THEN [err |-> "failed to record migration", d |-> tx, n |-> n + 2,
               applied |-> applied]
       ELSE UpLoop(Tail(migrations),
                   [tx EXCEPT !.schema = ran.schema,
                              !.recorded = @ \cup {migration.Version}],
                   currentVersion, targetVersion, n + 2, refuse,
                   Append(applied, migration.Version))

\* UpToVersion with its statements run on the pool, not in the transaction
UpToVersion_NoTransaction(migrations, d, targetVersion, n, refuse) ==
  LET init == Initialize(d, n + 1 = refuse)
      current == GetCurrentVersion(init.d, n + 2 = refuse)
      loop == UpLoop(migrations, init.d, current.version, targetVersion,
                     n + 3, refuse, <<>>)
  IN IF Len(migrations) = 0
       THEN Returned(d, "no migrations loaded", "none", <<>>, n)
     ELSE IF init.err # NoErr THEN Returned(d, init.err, "none", <<>>, n + 1)
     ELSE IF current.err # NoErr
       THEN Returned(init.d, current.err, "none", <<>>, n + 2)
     ELSE IF current.version >= targetVersion
       THEN Returned(init.d, NoErr, "none", <<>>, n + 2)
     ELSE IF n + 3 = refuse
       THEN Returned(init.d, "failed to begin transaction", "none", <<>>,
                     n + 3)
     ELSE IF loop.err # NoErr
       THEN Returned(loop.d, loop.err, "rolled back", loop.applied, loop.n)
     ELSE IF loop.n + 1 = refuse
       THEN Returned(loop.d, "commit failed", "ended by commit", loop.applied,
                     loop.n + 1)
     ELSE Returned(loop.d, NoErr, "committed", loop.applied, loop.n + 1)

\* UpToVersion(targetVersion), its database calls numbered from n + 1
UpToVersion(migrations, d, targetVersion, n, refuse) ==
  LET init == Initialize(d, n + 1 = refuse)
      current == GetCurrentVersion(init.d, n + 2 = refuse)
      loop == UpLoop(migrations, init.d, current.version, targetVersion,
                     n + 3, refuse, <<>>)
  IN IF Len(migrations) = 0
       THEN Returned(d, "no migrations loaded", "none", <<>>, n)
     ELSE IF init.err # NoErr THEN Returned(d, init.err, "none", <<>>, n + 1)
     ELSE IF current.err # NoErr
       THEN Returned(init.d, current.err, "none", <<>>, n + 2)
     ELSE IF current.version >= targetVersion
       THEN Returned(init.d, NoErr, "none", <<>>, n + 2)
     ELSE IF n + 3 = refuse
       THEN Returned(init.d, "failed to begin transaction", "none", <<>>,
                     n + 3)
     ELSE IF loop.err # NoErr
       THEN Returned(init.d, loop.err, "rolled back", loop.applied, loop.n)
     ELSE IF loop.n + 1 = refuse
       THEN Returned(init.d, "commit failed", "ended by commit", loop.applied,
                     loop.n + 1)
     ELSE Returned(loop.d, NoErr, "committed", loop.applied, loop.n + 1)

\* UpAll: up to the version of the last migration
UpAll(migrations, d, refuse) ==
  IF Len(migrations) = 0
    THEN Returned(d, "no migrations loaded", "none", <<>>, 0)
  ELSE UpToVersion(migrations, d, migrations[Len(migrations)].Version, 0,
                   refuse)

\* the query with ORDER BY version ASC
RECURSIVE OrderDesc_Ascending(_)
OrderDesc_Ascending(versions) ==
  IF versions = {} THEN <<>>
  ELSE OrderDesc_Ascending(versions \ {MaxVersion(versions)})
         \o << MaxVersion(versions) >>

\* SELECT version ... WHERE version > $1 ORDER BY version DESC
RECURSIVE OrderDesc(_)
OrderDesc(versions) ==
  IF versions = {} THEN <<>>
  ELSE << MaxVersion(versions) >> \o OrderDesc(versions \ {MaxVersion(versions)})

\* the loop of DownToVersion inside its transaction.  leftOpen: the loop
\* returned by a statement that leaves err, the variable the deferred
\* rollback looks at, nil
RECURSIVE DownLoop(_, _, _, _, _, _)
DownLoop(appliedMigrations, migrations, tx, n, refuse, applied) ==
  IF appliedMigrations = <<>>
    THEN [err |-> NoErr, leftOpen |-> FALSE, d |-> tx, n |-> n,
          applied |-> applied]
  ELSE
    LET version == Head(appliedMigrations)
        exists == \E k \in 1..Len(migrations) : migrations[k].Version = version
        migration == migrations[CHOOSE k \in 1..Len(migrations) :
                                  migrations[k].Version = version]
        ran == IF n + 1 = refuse
                 THEN [err |-> "refused", schema |-> tx.schema]
               ELSE Exec(migration.DownSQL, tx.schema)
        failed(e, open, m) == [err |-> e, leftOpen |-> open, d |-> tx, n |-> m,
                               applied |-> applied]
    IN IF ~exists THEN failed("cannot find down migration", TRUE, n)
       ELSE IF migration.DownSQL = <<>>
         THEN failed("down migration SQL is empty", TRUE, n)
       ELSE IF ran.err # NoErr
         THEN failed("failed to apply down migration", FALSE, n + 1)
       ELSE IF n + 2 = refuse
         THEN failed("failed to remove migration record", FALSE, n + 2)
       ELSE DownLoop(Tail(appliedMigrations), migrations,
                     [tx EXCEPT !.schema = ran.schema,
                                !.recorded = @ \ {version}],
                     n + 2, refuse, Append(applied, version))

\* DownToVersion(targetVersion), its database calls numbered from n + 1
DownToVersion(migrations, d, targetVersion, n, refuse) ==
  LET init == Initialize(d, n + 1 = refuse)
      current == GetCurrentVersion(init.d, n + 2 = refuse)
      appliedMigrations ==
        OrderDesc({ v \in init.d.recorded : v > targetVersion })
      loop == DownLoop(appliedMigrations, migrations, init.d, n + 4, refuse,
                       <<>>)
  IN IF Len(migrations) = 0
       THEN Returned(d, "no migrations loaded", "none", <<>>, n)
     ELSE IF init.err # NoErr THEN Returned(d, init.err, "none", <<>>, n + 1)
     ELSE IF current.err # NoErr
       THEN Returned(init.d, current.err, "none", <<>>, n + 2)
     ELSE IF current.version <= targetVersion
       THEN Returned(init.d, NoErr, "none", <<>>, n + 2)
     ELSE IF n + 3 = refuse
       THEN Returned(init.d, "failed to query applied migrations", "none",
                     <<>>, n + 3)
     ELSE IF n + 4 = refuse
       THEN Returned(init.d, "failed to begin transaction", "none", <<>>,
                     n + 4)
     ELSE IF loop.err # NoErr
       THEN Returned(init.d, loop.err,
                     IF loop.leftOpen THEN "open" ELSE "rolled back",
                     loop.applied, loop.n)
     ELSE IF loop.n + 1 = refuse
       THEN Returned(init.d, "commit failed", "ended by commit", loop.applied,
                     loop.n + 1)
     ELSE Returned(loop.d, NoErr, "committed", loop.applied, loop.n + 1)

\* Down: one version below the current one
Down(migrations, d, refuse) ==
  LET current == GetCurrentVersion(d, 1 = refuse)
  IN IF current.err # NoErr THEN Returned(d, current.err, "none", <<>>, 1)
     ELSE IF current.version = 0 THEN Returned(d, NoErr, "none", <<>>, 1)
     ELSE DownToVersion(migrations, d, current.version - 1, 1, refuse)

\* strconv.Atoi on the text of an argument
Atoi(text) ==
  IF AllDigits(text) THEN [err |-> NoErr, value |-> DecimalValue(text)]
  ELSE [err |-> "invalid syntax", value |-> 0]

NotCalled(d) == Returned(d, NoErr, "none", <<>>, 0)

\* what one run of main leaves behind: the error and the versions, in order,
\* of the migrations it loaded, the method it called and what that returned,
\* err as main's last test finds it, the lines it printed, its exit code
Ran(loaded, method, ret, err, printed, code) ==
  [loadErr |-> loaded.err,
   versions |-> [k \in 1..Len(loaded.migrations) |->
                   loaded.migrations[k].Version],
   called |-> method, ret |-> ret, err |-> err, printed |-> printed,
   code |-> code]

\* the end of main: the test of err after the switch
Finish(loaded, method, ret, err, printed) ==
  IF err # NoErr
    THEN Ran(loaded, method, ret, err, Append(printed, "Migration failed"), 1)
  ELSE Ran(loaded, method, ret, err,
           Append(printed, "Migration completed successfully"), 0)

\* main with os.Args[1:] = args against database d.  In the cases "up-to",
\* "down-to" and "status" the := declares an err of the case's own, and the
\* method's error goes there: the err tested after the switch stays as
\* LoadMigrations left it.
main(dir, d, args, refuse) ==
  LET loaded == LoadMigrations(dir)
      migrations == loaded.migrations
      command == args[1]
      version == Atoi(args[2])
      stop(line) == Ran(loaded, "none", NotCalled(d), NoErr, << line >>, 1)
      upAll == UpAll(migrations, d, refuse)
      down == Down(migrations, d, refuse)
      upTo == UpToVersion(migrations, d, version.value, 0, refuse)
      downTo == DownToVersion(migrations, d, version.value, 0, refuse)
      current == GetCurrentVersion(d, 1 = refuse)
  IN IF loaded.err # NoErr THEN stop("Failed to load migrations")
     ELSE IF Len(args) < 1 THEN stop("Usage")
     ELSE IF command = "up"
       THEN Finish(loaded, "UpAll", upAll, upAll.err, <<>>)
     ELSE IF command = "down"
       THEN Finish(loaded, "Down", down, down.err, <<>>)
     ELSE IF command = "up-to"
       THEN IF Len(args) < 2 THEN stop("Missing version number")
            ELSE IF version.err # NoErr THEN stop("Invalid version number")
            ELSE Finish(loaded, "UpToVersion", upTo, loaded.err, <<>>)
     ELSE IF command = "down-to"
       THEN IF Len(args) < 2 THEN stop("Missing version number")
            ELSE IF version.err # NoErr THEN stop("Invalid version number")
            ELSE Finish(loaded, "DownToVersion", downTo, loaded.err, <<>>)
     ELSE IF command = "status"
       THEN IF current.err # NoErr
              THEN Ran(loaded, "GetCurrentVersion",
                       Returned(d, current.err, "none", <<>>, 1), loaded.err,
                       << "Failed to get current version" >>, 1)
            ELSE Finish(loaded, "GetCurrentVersion",
                        Returned(d, NoErr, "none", <<>>, 1), loaded.err,
                        << "Current database version" >>)
     ELSE stop("Unknown command")

\* the command lines tried
MaxCommands == 3
MaxRefuse == 8
VersionTexts == { << "0" >>, << "1" >>, << "2" >>, << "3" >>, << "x" >> }
CommandLines ==
  { <<>>, << "up" >>, << "down" >>, << "status" >>, << "bogus" >>,
    << "up-to" >>, << "down-to" >> }
    \cup { << c, v >> : c \in {"up-to", "down-to"}, v \in VersionTexts }

NoCommand == [called |-> "nothing"]

InitMigrate ==
  /\ InitStore
  /\ jobs = <<>>
  /\ run = 0 /\ pc = "migrate" /\ idx = 0
  /\ filename = Undefined /\ nrows = 0 /\ weeksRead = <<>>
  /\ status = Undefined /\ errorMessage = Undefined /\ thrown = NoError
  /\ regionId = NULL /\ i = 0
  /\ countryCache = <<>> /\ admin1Cache = <<>> /\ aggregateData = <<>>
  /\ detected = FALSE /\ called = FALSE
  /\ hfc = NoCall /\ preGeo = {} /\ preAgg = {} /\ preJobs = 0
  /\ batchSize = BATCH_SIZE /\ clients = <<>>
  /\ tz = 0 /\ ops = <<>>
  /\ sheet = <<>> /\ visited = <<>> /\ prev = NoPrev
  /\ faults = 0 /\ loads = 0
  /\ \E dir \in Directories, table \in BOOLEAN :
       mig = [pc |-> "shell", dir |-> dir, d |-> EmptyDatabase(table),
              runs |-> 0, pre |-> EmptyDatabase(table), last |-> NoCommand]

MigrateUnchanged ==
  UNCHANGED << dbVars, jobs, run, pc, idx, filename, rowVars, loadVars, thrown,
               histVars, batchSize, clients, tz, ops, faults, loads >>

\* go run . args: one process, from its start to the end of main.  Kept
\* with what main leaves: the version the command line named and whether
\* the database refused a call of the run
Command(args, refuse) ==
  /\ pc = "migrate" /\ mig.pc = "shell" /\ mig.runs < MaxCommands
  /\ \E ran \in { main(mig.dir, mig.d, args, refuse) } :
       LET target == IF Len(args) >= 2 THEN Atoi(args[2]).value ELSE 0
           refused == refuse \in 1..ran.ret.n
       IN mig' = [mig EXCEPT !.pc = "returned", !.runs = @ + 1,
                             !.pre = mig.d, !.d = ran.ret.d,
                             !.last = [target |-> target, refused |-> refused]
                                        @@ ran]
  /\ MigrateUnchanged

\* the process ends: the server drops what its connections left open
Exit ==
  /\ pc = "migrate" /\ mig.pc = "returned"
  /\ mig' = [mig EXCEPT !.pc = "shell", !.pre = mig.d, !.last = NoCommand]
  /\ MigrateUnchanged

NextMigrate ==
  \/ \E args \in CommandLines, refuse \in 0..MaxRefuse : Command(args, refuse)
  \/ Exit

SpecMigrate == InitMigrate /\ [][NextMigrate]_vars

\* ------------------------------------------------------------- properties of the migration runner
\* main has returned from the method named
ReturnedFrom(methods) ==
  pc = "migrate" /\ mig.pc = "returned" /\ mig.last.called \in methods

LoadedVersions == { mig.last.versions[k] : k \in 1..Len(mig.last.versions) }

\* the target of the method main called; Down at version 0 calls nothing
TargetVersion ==
  IF mig.last.called = "UpAll" THEN MaxVersion(LoadedVersions)
  ELSE IF mig.last.called = "Down"
    THEN IF mig.pre.recorded = {} THEN 0 ELSE MaxVersion(mig.pre.recorded) - 1
  ELSE mig.last.target

Ascending(s) == \A k \in 1..(Len(s) - 1) : s[k] < s[k + 1]
Descending(s) == \A k \in 1..(Len(s) - 1) : s[k] > s[k + 1]
Members(s) == { s[k] : k \in 1..Len(s) }

\* the objects the up script of a version creates
CreatedBy(version) ==
  LET migrations == LoadMigrations(mig.dir).migrations
      migration == migrations[CHOOSE k \in 1..Len(migrations) :
                                migrations[k].Version = version]
  IN { migration.UpSQL[k].name : k \in 1..Len(migration.UpSQL) }

\* C32: UpToVersion(t), returning without error from current version c,
\* has for c < t applied exactly the loaded migrations with c < version <= t,
\* in ascending order, recorded each of them, and left as current version
\* the largest loaded version not above t; for c >= t it has changed neither
\* the records nor the schema.
C32_UpToVersionApplies ==
  (ReturnedFrom({"UpToVersion", "UpAll"}) /\ mig.last.ret.err = NoErr)
    => LET c == MaxVersion(mig.pre.recorded)
           t == TargetVersion
           due == { v \in LoadedVersions : c < v /\ v <= t }
       IN IF c < t
            THEN /\ Members(mig.last.ret.applied) = due
                 /\ Ascending(mig.last.ret.applied)
                 /\ mig.d.recorded = mig.pre.recorded \cup due
                 /\ \A v \in due : CreatedBy(v) \subseteq ObjectNames(mig.d.schema)
                 /\ MaxVersion(mig.d.recorded)
                      = MaxVersion({ v \in LoadedVersions : v <= t })
          ELSE /\ mig.last.ret.applied = <<>>
               /\ mig.d.recorded = mig.pre.recorded
               /\ mig.d.schema = mig.pre.schema

C32_Witness ==
  /\ ReturnedFrom({"UpToVersion"}) /\ mig.last.ret.err = NoErr
  /\ MaxVersion(mig.pre.recorded) = 1 /\ TargetVersion = 3
  /\ mig.last.ret.applied = << 2, 3 >>

\* C33: when UpToVersion fails in applying or in recording a migration, none
\* of the migrations of that call stays applied or recorded: the recorded
\* versions (so the current version) and the schema are as before the call,
\* and the transaction has been rolled back.
C33_UpToVersionAllOrNothing ==
  (/\ ReturnedFrom({"UpToVersion", "UpAll"})
   /\ mig.last.ret.err \in {"failed to apply migration",
                            "failed to record migration"})
    => /\ mig.d.recorded = mig.pre.recorded
       /\ mig.d.schema = mig.pre.schema
       /\ mig.last.ret.tx = "rolled back"

C33_Witness ==
  /\ ReturnedFrom({"UpToVersion", "UpAll"})
  /\ mig.last.ret.err = "failed to record migration"
  /\ Len(mig.last.ret.applied) >= 1
  /\ mig.d = mig.pre

\* the objects the up script of a version creates and its down script drops
DroppedBy(version) ==
  LET migrations == LoadMigrations(mig.dir).migrations
      migration == migrations[CHOOSE k \in 1..Len(migrations) :
                                migrations[k].Version = version]
  IN { migration.DownSQL[k].name : k \in 1..Len(migration.DownSQL) }

\* C34: DownToVersion(t), returning without error from current version c,
\* has for c > t reverted exactly the recorded migrations with version > t,
\* in descending order, deleted the record of each, and left a current
\* version of at most t; for c <= t it has changed neither the records nor
\* the schema.  Down is DownToVersion(c - 1).
C34_DownToVersionReverts ==
  (ReturnedFrom({"DownToVersion", "Down"}) /\ mig.last.ret.err = NoErr)
    => LET c == MaxVersion(mig.pre.recorded)
           t == TargetVersion
           due == { v \in mig.pre.recorded : v > t }
       IN IF c > t
            THEN /\ Members(mig.last.ret.applied) = due
                 /\ Descending(mig.last.ret.applied)
                 /\ mig.d.recorded = mig.pre.recorded \ due
                 /\ \A v \in due :
                      DroppedBy(v) \cap ObjectNames(mig.d.schema) = {}
                 /\ MaxVersion(mig.d.recorded) <= t
          ELSE /\ mig.last.ret.applied = <<>>
               /\ mig.d.recorded = mig.pre.recorded
               /\ mig.d.schema = mig.pre.schema

C34_Witness ==
  /\ ReturnedFrom({"DownToVersion"}) /\ mig.last.ret.err = NoErr
  /\ mig.pre.recorded = {1, 2, 3} /\ TargetVersion = 1
  /\ mig.last.ret.applied = << 3, 2 >>
  /\ mig.d.recorded = {1}

VersionsOfDirectory ==
  LET migrations == LoadMigrations(mig.dir).migrations
  IN { migrations[k].Version : k \in 1..Len(migrations) }

\* C36: with the loaded migrations fixed and schema_migrations empty at the
\* start, after any sequence of UpToVersion, UpAll, DownToVersion and Down,
\* failed or not, the recorded versions are exactly the loaded versions up
\* to the current version.
C36_RecordedIsPrefixOfLoaded ==
  pc = "migrate"
    => mig.d.recorded
         = { v \in VersionsOfDirectory : v <= MaxVersion(mig.d.recorded) }

C36_Witness ==
  /\ pc = "migrate" /\ mig.pc = "returned" /\ mig.runs = 3
  /\ VersionsOfDirectory = {1, 2, 3}
  /\ mig.last.called = "DownToVersion"
  /\ mig.last.ret.err = "failed to remove migration record"
  /\ mig.last.ret.applied = << 3 >>
  /\ mig.d.recorded = {1, 2, 3}

\* what the name of a file says: its version and whether it is an up file
VersionOfFile(k) == DecimalValue(SplitOn(MigrationFiles[k].name, "_")[1])
IsUpFile(k) ==
  MigrationFiles[k].name[Len(MigrationFiles[k].name)] = "up.sql"

\* the directory holds two up files of one version
TwoUpFilesOfOneVersion ==
  \E j, k \in mig.dir :
    /\ j # k /\ IsUpFile(j) /\ IsUpFile(k)
    /\ VersionOfFile(j) = VersionOfFile(k)

\* C37: over a directory of well-named files, LoadMigrations returns the
\* duplicate-version error when two up files have the same version, and
\* otherwise yields migrations of pairwise distinct versions in ascending
\* order.
C37_DuplicateVersionRejected ==
  (/\ pc = "migrate" /\ mig.pc = "returned"
   /\ \A k \in mig.dir : VersionOfFile(k) >= 1)
    => IF TwoUpFilesOfOneVersion
         THEN mig.last.loadErr = "duplicate migration version"
       ELSE /\ mig.last.loadErr = NoErr
            /\ \A j, k \in 1..Len(mig.last.versions) :
                 j < k => mig.last.versions[j] < mig.last.versions[k]

\* the repository's own directory: 001_init_db_down.sql, 001_init_db_up.sql
RepositoryDirectory == {2, 3}

\* C38: over the repository's migrations, the down migration of version 1
\* undoes its up migration: after `down` from version 1 no table or type
\* that the up script created is left, and so an `up` from version 0 that
\* the database does not refuse succeeds, also after up and down.
C38_DownInvertsUp ==
  (pc = "migrate" /\ mig.pc = "returned" /\ mig.dir = RepositoryDirectory)
    => /\ (/\ mig.last.called = "Down" /\ mig.last.ret.err = NoErr
           /\ mig.pre.recorded = {1})
            => ObjectNames(mig.d.schema) \cap CreatedBy(1) = {}
       /\ (/\ mig.last.called = "UpAll" /\ ~mig.last.refused
           /\ mig.pre.recorded = {})
            => mig.last.ret.err = NoErr

\* C39: for the commands up, down, up-to and down-to, when the method of the
\* migrator returns an error the program ends by 'Migration failed' and does
\* not print 'Migration completed successfully'.
C39_FailureReported ==
  (/\ ReturnedFrom({"UpAll", "Down", "UpToVersion", "DownToVersion"})
   /\ mig.last.ret.err # NoErr)
    => /\ mig.last.printed = << "Migration failed" >>
       /\ mig.last.code = 1

\* the event types whose helper list holds a sub-event type
ParentsOf(subEventType) ==
  { e \in EventTypes : subEventType \in SubEventTypesOf(e) }

\* C40: the six helper lists are pairwise disjoint and together hold exactly
\* the 25 declared sub-event types, so the sub-event type of any row has
\* exactly one parent event type.
C40_OneParentEventType ==
  /\ \A e, f \in EventTypes :
       e # f => SubEventTypesOf(e) \cap SubEventTypesOf(f) = {}
  /\ UNION { SubEventTypesOf(e) : e \in EventTypes } = SubEventTypes
  /\ Cardinality(SubEventTypes) = 25
  /\ (pc \in {"events", "normalized"} /\ sheet[1].subEventType # <<>>)
       => Cardinality(ParentsOf(Head(sheet[1].subEventType))) = 1

C40_Witness ==
  /\ pc = "normalized"
  /\ sheet[1].subEventType = << "Attack" >>
  /\ sheet[1].eventType = << "Riots" >>
  /\ ParentsOf("Attack") = {"Violence against civilians"}

====
